---------------------------- MODULE Spec2Model ----------------------------
(***************************************************************************)
(* Model of the cache / persistence subsystem of the Pokemon web app       *)
(* (src/utils/cache.py, src/utils/pokeapi.py, operator routes of           *)
(* src/app.py): two in-memory stores backed by JSON files, the atomic file *)
(* writer, the retrying HTTP session, batch resolution of default          *)
(* varieties, and backup / recover / refresh of the stores.                *)
(***************************************************************************)
EXTENDS Integers, Sequences, FiniteSets, TLC

(***************************************************************************)
(* JSON values.  A value is a record tagged by its kind k; objects carry a *)
(* function from key strings to values, arrays a sequence of values.       *)
(***************************************************************************)
JNull == [k |-> "null"]
JBool(b) == [k |-> "bool", v |-> b]
JNum(n) == [k |-> "num", v |-> n]
JStr(s) == [k |-> "str", v |-> s]
JArr(s) == [k |-> "arr", v |-> s]
JObj(f) == [k |-> "obj", v |-> f]

EmptyMap == [x \in {} |-> JNull]
EmptyObj == JObj(EmptyMap)
EmptyArr == JArr(<<>>)

\* Python None, as returned by a handler or by json for null.
PyNone == JNull

\* Marks a handler call that ended by an exception leaving the handler.
Raised == [k |-> "raise"]

\* Python truthiness of a JSON value (the test of "if data:").
Truthy(j) ==
    CASE j.k = "null" -> FALSE
      [] j.k = "raise" -> FALSE
      [] j.k = "bool" -> j.v
      [] j.k = "num" -> j.v # 0
      [] j.k = "str" -> j.v # ""
      [] j.k = "arr" -> Len(j.v) > 0
      [] j.k = "obj" -> DOMAIN j.v # {}

\* dict.get(key, default) on a JSON object; raises AttributeError (here:
\* signalled by the caller's IsObj test) on anything that is not an object.
IsObj(j) == j.k = "obj"
Get(j, key, default) == IF key \in DOMAIN j.v THEN j.v[key] ELSE default

\* dict[key] = value and del dict[key] on the function of an object.
MapPut(f, key, val) == [x \in (DOMAIN f) \cup {key} |-> IF x = key THEN val ELSE f[x]]

(***************************************************************************)
(* json.dump(obj, tmp, separators=(",", ":")): the compact text of a       *)
(* value, as a sequence of tokens.  The members of an object are written   *)
(* one after the other, separated by commas; the order of the members is   *)
(* the dict's iteration order, which the parsed content does not depend on.*)
(***************************************************************************)
Tok(t) == [t |-> t]
StrTok(s) == [t |-> "str", s |-> s]
NumTok(n) == [t |-> "num", n |-> n]

RECURSIVE json_dump(_)
RECURSIVE DumpMembers(_, _)
RECURSIVE DumpItems(_)

DumpMembers(f, ks) ==
    IF ks = {} THEN <<>>
    ELSE LET key == CHOOSE x \in ks : TRUE
             rest == ks \ {key}
         IN  <<StrTok(key), Tok(":")>> \o json_dump(f[key])
                 \o (IF rest = {} THEN <<>> ELSE <<Tok(",")>> \o DumpMembers(f, rest))

DumpItems(s) ==
    IF Len(s) = 0 THEN <<>>
    ELSE json_dump(Head(s))
            \o (IF Len(s) = 1 THEN <<>> ELSE <<Tok(",")>> \o DumpItems(Tail(s)))

json_dump_dropping_last_member(j) ==
    CASE j.k = "obj" ->
           LET ks == DOMAIN j.v
               keep == IF ks = {} THEN {} ELSE ks \ {CHOOSE x \in ks : TRUE}
           IN  <<Tok("{")>> \o DumpMembers(j.v, keep) \o <<Tok("}")>>
      [] OTHER -> <<Tok("null")>>

json_dump(j) ==
    CASE j.k = "null" -> <<Tok("null")>>
      [] j.k = "bool" -> <<Tok(IF j.v THEN "true" ELSE "false")>>
      [] j.k = "num" -> <<NumTok(j.v)>>
      [] j.k = "str" -> <<StrTok(j.v)>>
      [] j.k = "arr" -> <<Tok("[")>> \o DumpItems(j.v) \o <<Tok("]")>>
      [] j.k = "obj" -> <<Tok("{")>> \o DumpMembers(j.v, DOMAIN j.v) \o <<Tok("}")>>

(***************************************************************************)
(* json.load(f): a recursive-descent parse of the token text.  A parse     *)
(* step yields [ok, val, rest]; json.load raises (ok = FALSE) on an empty  *)
(* text, on a truncated text and on text left after the value.             *)
(***************************************************************************)
ParseFail == [ok |-> FALSE, val |-> JNull, rest |-> <<>>]
ParseOk(v, rest) == [ok |-> TRUE, val |-> v, rest |-> rest]

RECURSIVE ParseValue(_)
RECURSIVE ParseMembers(_, _)
RECURSIVE ParseItems(_, _)

\* After "{" and zero or more members: expects  "key" : value  then , or }.
ParseMembers(toks, acc) ==
    IF Len(toks) < 2 \/ toks[1].t # "str" \/ toks[2].t # ":" THEN ParseFail
    ELSE LET key == toks[1].s
             r == ParseValue(SubSeq(toks, 3, Len(toks)))
         IN  IF ~r.ok \/ Len(r.rest) = 0 THEN ParseFail
             ELSE LET acc2 == MapPut(acc, key, r.val)
                      nxt == Head(r.rest)
                  IN  CASE nxt.t = "," -> ParseMembers(Tail(r.rest), acc2)
                        [] nxt.t = "}" -> ParseOk(JObj(acc2), Tail(r.rest))
                        [] OTHER -> ParseFail

\* After "[" and zero or more items: expects  value  then , or ].
ParseItems(toks, acc) ==
    LET r == ParseValue(toks)
    IN  IF ~r.ok \/ Len(r.rest) = 0 THEN ParseFail
        ELSE LET acc2 == Append(acc, r.val)
                 nxt == Head(r.rest)
             IN  CASE nxt.t = "," -> ParseItems(Tail(r.rest), acc2)
                   [] nxt.t = "]" -> ParseOk(JArr(acc2), Tail(r.rest))
                   [] OTHER -> ParseFail

ParseValue(toks) ==
    IF Len(toks) = 0 THEN ParseFail
    ELSE LET h == Head(toks)
             rest == Tail(toks)
         IN  CASE h.t = "null" -> ParseOk(JNull, rest)
               [] h.t = "true" -> ParseOk(JBool(TRUE), rest)
               [] h.t = "false" -> ParseOk(JBool(FALSE), rest)
               [] h.t = "num" -> ParseOk(JNum(h.n), rest)
               [] h.t = "str" -> ParseOk(JStr(h.s), rest)
               [] h.t = "[" ->
                    IF Len(rest) > 0 /\ Head(rest).t = "]"
                    THEN ParseOk(EmptyArr, Tail(rest))
                    ELSE ParseItems(rest, <<>>)
               [] h.t = "{" ->
                    IF Len(rest) > 0 /\ Head(rest).t = "}"
                    THEN ParseOk(EmptyObj, Tail(rest))
                    ELSE ParseMembers(rest, EmptyMap)
               [] OTHER -> ParseFail

\* json.load on a whole text: [ok, val]; text after the value is an error.
json_load(text) ==
    LET r == ParseValue(text)
    IN  IF r.ok /\ Len(r.rest) = 0 THEN [ok |-> TRUE, val |-> r.val]
        ELSE [ok |-> FALSE, val |-> JNull]

(***************************************************************************)
(* State.                                                                  *)
(***************************************************************************)
VARIABLES
    pokemon_cache,           \* the primary store (a JSON value; a dict)
    extra_cache,             \* the secondary store (a dict of sections)
    ENABLE_VERBOSE_LOGGING,  \* the runtime flag of cache.py:31
    cache_file,              \* data/pokemon_cache.json
    extra_file,              \* data/extra_cache.json
    backups,                 \* data/pokemon_cache_backup_<ts>.json, by <ts>
    extra_backups,           \* data/extra_cache_backup_<ts>.json, by <ts>
    tmp_files,               \* number of leftover temporary files in data/
    quarantined,             \* the <file>.corrupt.<ts> files in data/
    now,                     \* the wall clock, in seconds
    loaded,                  \* the module's import-time code has run
    last,                    \* what the last handler call did and returned
    obtained,                \* per (section, key): the value a fetch obtained
    ops,                     \* handler calls made so far
    faults,                  \* injected local I/O faults so far
    pc,                      \* position inside recover_cache and _atomic_write
    tmp,                     \* the temporary file of _atomic_write
    tmp_path,                \* the local variable tmp_path of _atomic_write
    old_file,                \* the live file as the call in progress found it
    http_pc,                 \* position inside _json_fetch
    retries_left,            \* Retry.total of the request in flight
    attempts,                \* outcomes of the HTTP attempts made so far
    workers,                 \* concurrent callers: each one's position and locals
    memory,                  \* pokemon_cache of each process on the data directory
    temp_dir,                \* the temporary files of the callers, by name
    renames                  \* the os.replace calls onto the live file so far

storeVars == <<pokemon_cache, extra_cache, ENABLE_VERBOSE_LOGGING, cache_file,
               extra_file, backups, extra_backups, tmp_files, quarantined,
               now, loaded, last, obtained, ops, faults>>
workerVars == <<workers, memory, temp_dir, renames>>
writeVars == <<pc, tmp, tmp_path, old_file, workerVars>>
httpVars == <<http_pc, retries_left, attempts>>
vars == <<storeVars, writeVars, httpVars>>

\* A file of the data directory: whether it exists, and its text.
NoFile == [exists |-> FALSE, data |-> <<>>]
File(text) == [exists |-> TRUE, data |-> text]

(***************************************************************************)
(* Keys and remote documents.                                              *)
(***************************************************************************)
\* Names as callers pass them, and str.lower() on them.
RawNames == {"A", "a"}
\* Species names as a generation lists them, for the batch resolver.
SpeciesNames == {"A", "a", "b"}
Lower(s) == CASE s = "A" -> "a" [] s = "B" -> "b" [] OTHER -> s

\* The hit test of every handler: "if key in section".
CachedNever(m, key) == FALSE
Cached(m, key) == key \in DOMAIN m

\* Documents of the /pokemon/ endpoint.
PokemonDoc(n) == JObj("id" :> JNum(n))
PokemonDocs == {PokemonDoc(1), PokemonDoc(2)}

PartialMaps(K, V) == UNION {[S -> V] : S \in SUBSET K}

(***************************************************************************)
(* _atomic_write(path, obj), step by step (cache.py:51-68), for            *)
(* save_cache: path is CACHE_FILE and obj is pokemon_cache.                *)
(*   create   NamedTemporaryFile(dir=d, delete=False)                      *)
(*   dump     json.dump(obj, tmp): the text reaches the file piecewise     *)
(*   flush    tmp.flush()                                                  *)
(*   fsync    os.fsync(tmp.fileno())                                       *)
(*   name     tmp_path = tmp.name, then the with block closes the file     *)
(*   replace  os.replace(tmp_path, path)                                   *)
(*   except   the handler of lines 62-68                                   *)
(***************************************************************************)
\* One write of json.dump reaching the temporary file: the next token of
\* the text is appended to the temporary file; the target is not touched.
DumpStepInPlace(target, t, text) ==
    [target |-> File(SubSeq(text, 1, Len(t.data) + 1)),
     tmp |-> File(SubSeq(text, 1, Len(t.data) + 1))]

DumpStep(target, t, text) ==
    [target |-> target,
     tmp |-> File(SubSeq(text, 1, Len(t.data) + 1))]

\* Lines 63-65: the temporary file is removed only if tmp_path was set.
RemoveOnError(tp, t) == IF tp # "None" /\ t.exists THEN NoFile ELSE t

\* Stores drawn as the obj of a step-by-step write.
WriteStores == {JObj(f) : f \in PartialMaps({"a", "b"}, PokemonDocs)}

AW_Begin ==
    /\ pc = "idle"
    /\ pc' = "create"
    /\ tmp_path' = "None"
    /\ old_file' = cache_file
    /\ UNCHANGED <<tmp, storeVars, httpVars, workerVars>>

AW_CreateTemp ==
    /\ pc = "create"
    /\ tmp' = File(<<>>)
    /\ pc' = "dump"
    /\ UNCHANGED <<tmp_path, old_file, storeVars, httpVars, workerVars>>

AW_Dump ==
    /\ pc = "dump"
    /\ LET text == json_dump(pokemon_cache)
           r == DumpStep(cache_file, tmp, text)
       IN  /\ tmp' = r.tmp
           /\ cache_file' = r.target
           /\ pc' = IF Len(r.tmp.data) = Len(text) THEN "flush" ELSE "dump"
    /\ UNCHANGED <<tmp_path, old_file, httpVars, workerVars>>
    /\ UNCHANGED <<pokemon_cache, extra_cache, ENABLE_VERBOSE_LOGGING, extra_file,
                   backups, extra_backups, tmp_files, quarantined, now,
                   loaded, last, obtained, ops, faults>>

AW_Flush ==
    /\ pc = "flush"
    /\ pc' = "fsync"
    /\ UNCHANGED <<tmp, tmp_path, old_file, storeVars, httpVars, workerVars>>

AW_Fsync ==
    /\ pc = "fsync"
    /\ pc' = "name"
    /\ UNCHANGED <<tmp, tmp_path, old_file, storeVars, httpVars, workerVars>>

AW_SetTmpPath ==
    /\ pc = "name"
    /\ tmp_path' = "tmp"
    /\ pc' = "replace"
    /\ UNCHANGED <<tmp, old_file, storeVars, httpVars, workerVars>>

\* os.replace: the rename is atomic; the temporary name is gone afterwards.
AW_Replace ==
    /\ pc = "replace"
    /\ cache_file' = File(tmp.data)
    /\ tmp' = NoFile
    /\ pc' = "done"
    /\ UNCHANGED <<tmp_path, old_file, httpVars, workerVars>>
    /\ UNCHANGED <<pokemon_cache, extra_cache, ENABLE_VERBOSE_LOGGING, extra_file,
                   backups, extra_backups, tmp_files, quarantined, now,
                   loaded, last, obtained, ops, faults>>

\* The current step raises (an OSError of the file system, or an error of
\* json.dump); the step itself has no further effect.
AW_Fail ==
    /\ pc \in {"create", "dump", "flush", "fsync", "replace"}
    /\ pc' = "except"
    /\ UNCHANGED <<tmp, tmp_path, old_file, storeVars, httpVars, workerVars>>

\* Lines 62-68: remove the temporary file if tmp_path is set, re-raise.
AW_Except ==
    /\ pc = "except"
    /\ tmp' = RemoveOnError(tmp_path, tmp)
    /\ pc' = "raised"
    /\ UNCHANGED <<tmp_path, old_file, storeVars, httpVars, workerVars>>

\* The process is killed inside _atomic_write; the files stay as they are.
AW_Crash ==
    /\ pc \in {"create", "dump", "flush", "fsync", "name", "replace", "except"}
    /\ pc' = "crashed"
    /\ UNCHANGED <<tmp, tmp_path, old_file, storeVars, httpVars, workerVars>>

(***************************************************************************)
(* _json_fetch(url), cache.py:40-49: a GET through the shared session,     *)
(* whose adapter retries as _retry says, then raise_for_status() and       *)
(* json().  One action per HTTP attempt.                                   *)
(***************************************************************************)
\* Retry(total=3, ...), cache.py:41: the retries allowed after the first
\* attempt.
RetryTotal == 3
\* status_forcelist of cache.py:41.
status_forcelist == {429, 500, 502, 503, 504}
\* Retry.RETRY_AFTER_STATUS_CODES: retried when the response carries a
\* Retry-After header (respect_retry_after_header is left at True).
RETRY_AFTER_STATUS_CODES == {413, 429, 503}

\* What one attempt can end in: a response (status, whether it carries
\* Retry-After, whether its body is JSON), or no response at all.
Response(code, ra, json) == [kind |-> "response", code |-> code, retry_after |-> ra, json |-> json]
ConnError == [kind |-> "error", code |-> 0, retry_after |-> FALSE, json |-> FALSE]
AttemptOutcomes ==
    {Response(200, FALSE, TRUE), Response(200, FALSE, FALSE), Response(404, FALSE, FALSE),
     Response(413, TRUE, FALSE), Response(503, TRUE, FALSE)}
    \cup {Response(c, FALSE, FALSE) : c \in status_forcelist}
    \cup {ConnError}

\* Retry.is_retry(method, status_code, has_retry_after) for a GET.
is_retry(total, o) ==
    \/ o.code \in status_forcelist
    \/ total # 0 /\ o.retry_after /\ o.code \in RETRY_AFTER_STATUS_CODES

\* Retry.is_exhausted() of the Retry object that increment() returns.
is_exhausted(total) == total < 0

\* r = _session.get(url, timeout=timeout): the first attempt is due.
Fetch_Begin ==
    /\ http_pc = "idle"
    /\ http_pc' = "attempt"
    /\ retries_left' = RetryTotal
    /\ attempts' = <<>>
    /\ UNCHANGED <<storeVars, writeVars>>

\* An attempt ends without a response (connection error or timeout):
\* increment(), then either the next attempt or ConnectionError.
Fetch_AttemptError ==
    /\ http_pc = "attempt"
    /\ attempts' = Append(attempts, ConnError)
    /\ retries_left' = retries_left - 1
    /\ http_pc' = IF is_exhausted(retries_left - 1) THEN "ConnectionError" ELSE "attempt"
    /\ UNCHANGED <<storeVars, writeVars>>

\* An attempt ends in a response.  If is_retry, increment() and either the
\* next attempt or RetryError; else the response reaches _json_fetch:
\* raise_for_status() raises HTTPError on 4xx/5xx, json() raises on a
\* body that is not JSON, else the parsed body is returned.
Fetch_AttemptResponse ==
    /\ http_pc = "attempt"
    /\ \E o \in AttemptOutcomes :
         /\ o.kind = "response"
         /\ attempts' = Append(attempts, o)
         /\ IF is_retry(retries_left, o)
            THEN /\ retries_left' = retries_left - 1
                 /\ http_pc' = IF is_exhausted(retries_left - 1) THEN "RetryError" ELSE "attempt"
            ELSE /\ retries_left' = retries_left
                 /\ http_pc' = IF o.code >= 400 THEN "HTTPError"
                               ELSE IF ~o.json THEN "JSONDecodeError"
                               ELSE "returned"
    /\ UNCHANGED <<storeVars, writeVars>>

(***************************************************************************)
(* The store machine: every handler of cache.py as one atomic action.      *)
(***************************************************************************)
\* Bounds of the model.
MaxOps == 2
MaxFaults == 1
StartTime == 9
MaxTime == 10
MaxBatch == 2

\* Sections expected to exist inside extra_cache (cache.py:26, 29).
REQUIRED_EXTRA_KEYS == <<"species", "evolution", "type", "generation", "species_default">>
LISTS_KEY == "lists"

\* The whole of _atomic_write as its caller sees it.  fault names the step
\* that raises: "none"; "dump" (json.dump, flush or fsync, i.e. before
\* tmp_path is set); "replace" (os.replace).  leak counts the temporary
\* file the call leaves behind.
AtomicWrite(target, obj, fault) ==
    IF fault = "none"
    THEN [file |-> File(json_dump(obj)), leak |-> 0, ok |-> TRUE]
    ELSE LET tp == IF fault = "replace" THEN "tmp" ELSE "None"
             left == RemoveOnError(tp, File(<<>>))
         IN  [file |-> target, leak |-> IF left.exists THEN 1 ELSE 0, ok |-> FALSE]

FaultKinds == {"none", "dump", "replace"}
FaultAllowed(fault) == fault = "none" \/ faults < MaxFaults
FaultCount(fault) == IF fault = "none" THEN 0 ELSE 1

\* datetime.now().strftime(...): a zero-padded, fixed-width decimal text,
\* modelled by its two low-order digits.
strftime(t) == <<t \div 10, t % 10>>

\* Order of Python strings (and so of the file names that differ in the
\* timestamp only): lexicographic, a proper prefix first.
RECURSIVE LexLess(_, _)
LexLess(a, b) ==
    IF Len(a) = 0 THEN Len(b) > 0
    ELSE IF Len(b) = 0 THEN FALSE
    ELSE IF Head(a) # Head(b) THEN Head(a) < Head(b)
    ELSE LexLess(Tail(a), Tail(b))

\* "return True" / "return False" of recover_cache and recover_extra_cache.
OutcomeAlwaysTrue(ok) == JBool(TRUE)
Outcome(ok) == JBool(ok)

\* sorted(glob(...), reverse=True)[0]: the name that no other name exceeds.
NewestBackupOldest(names) == CHOOSE n \in names : \A m \in names : m = n \/ LexLess(n, m)
NewestBackup(names) == CHOOSE n \in names : \A m \in names : m = n \/ LexLess(m, n)

\* What the last handler call did: its name, its argument, the key it
\* used, what it returned, how many remote fetches it made and what the
\* fetch yielded, how many times it called _atomic_write and how many of
\* those calls succeeded, and what its persist call handed back to it.
\* save_cache and save_extra_cache (cache.py:372-384) catch whatever
\* _atomic_write raises, log it and return None, as they do on success.
save_outcome(ok) == "returned None"
Obs(op, arg, key, ret, fetches, fetched, saves, saved) ==
    [op |-> op, arg |-> arg, key |-> key, ret |-> ret, fetches |-> fetches,
     fetched |-> fetched, saves |-> saves, saved |-> saved,
     save_seen |-> IF saves = 0 THEN "no call" ELSE save_outcome(saved = saves)]

\* for k in REQUIRED_EXTRA_KEYS: d.setdefault(k, {}); d.setdefault(LISTS_KEY, {})
RECURSIVE SetDefaults(_, _)
SetDefaults(f, ks) ==
    IF Len(ks) = 0 THEN f
    ELSE SetDefaults(IF Head(ks) \in DOMAIN f THEN f ELSE MapPut(f, Head(ks), EmptyObj),
                     Tail(ks))
NormalizeWithoutLists(j) == JObj(SetDefaults(j.v, REQUIRED_EXTRA_KEYS))
Normalize(j) == JObj(SetDefaults(j.v, Append(REQUIRED_EXTRA_KEYS, LISTS_KEY)))

\* {k: {} for k in REQUIRED_EXTRA_KEYS} plus the lists bucket.
EmptyExtraWithoutLists == NormalizeWithoutLists(EmptyObj)
EmptyExtra == Normalize(EmptyObj)

\* A section of the secondary store, and the store with a section replaced.
Sec(ec, name) == ec.v[name].v
SetSec(ec, name, f) == JObj(MapPut(ec.v, name, JObj(f)))

\* Drop what fetches obtained for the given sections.
Forget(ob, secs) == [x \in {y \in DOMAIN ob : y[1] \notin secs} |-> ob[x]]
ExtraSections == {"species", "evolution", "type", "generation"}

(***************************************************************************)
(* The data directory as a previous run of the program may have left it.   *)
(***************************************************************************)
\* A type entry written before the member list was kept (cache.py:297).
OldTypeEntry == JObj(("name" :> JStr("a")) @@ ("damage_relations" :> EmptyObj))
\* A secondary store written before some of the sections existed.
OldExtra == JObj(("species" :> EmptyObj) @@ ("type" :> JObj("a" :> OldTypeEntry)))

NoStartObs == Obs("none", "", "", PyNone, 0, PyNone, 0, 0)

DiskImages ==
    { [cache_file |-> NoFile, extra_file |-> NoFile,
       backups |-> <<>>, extra_backups |-> <<>>, tmp_files |-> 0],
      [cache_file |-> File(json_dump(JObj("a" :> PokemonDoc(1)))),
       extra_file |-> File(json_dump(OldExtra)),
       backups |-> (strftime(StartTime - 3) :> json_dump(JObj("a" :> PokemonDoc(2))))
                   @@ (strftime(StartTime - 2) :> json_dump(JObj("b" :> PokemonDoc(2)))),
       extra_backups |-> (strftime(StartTime - 3) :> json_dump(EmptyExtra))
                         @@ (strftime(StartTime - 2) :> json_dump(OldExtra)),
       tmp_files |-> 1],
      [cache_file |-> File(<<Tok("{"), StrTok("a"), Tok(":")>>),
       extra_file |-> File(<<>>),
       backups |-> <<>>, extra_backups |-> <<>>, tmp_files |-> 0] }

NoWorkers == workers = <<>> /\ memory = <<>> /\ temp_dir = <<>> /\ renames = <<>>
WriteQuiet ==
    pc = "idle" /\ tmp = NoFile /\ tmp_path = "None" /\ old_file = NoFile /\ NoWorkers
HttpQuiet == http_pc = "idle" /\ retries_left = 0 /\ attempts = <<>>

\* Data directories whose newest snapshot was cut short (a copy
\* interrupted, a disk filled up) behind an older sound one, or holds JSON
\* that is no object.
TornSnapshot == <<Tok("{"), StrTok("b"), Tok(":"), Tok("{")>>
TornImages ==
    { [cache_file |-> File(json_dump(JObj("a" :> PokemonDoc(1)))),
       extra_file |-> File(json_dump(OldExtra)),
       backups |-> (strftime(StartTime - 3) :> json_dump(JObj("a" :> PokemonDoc(2))))
                   @@ (strftime(StartTime - 2) :> TornSnapshot),
       extra_backups |-> (strftime(StartTime - 3) :> json_dump(OldExtra))
                         @@ (strftime(StartTime - 2) :> TornSnapshot),
       tmp_files |-> 0],
      [cache_file |-> File(json_dump(JObj("a" :> PokemonDoc(1)))),
       extra_file |-> File(json_dump(OldExtra)),
       backups |-> <<>>,
       extra_backups |-> (strftime(StartTime - 2) :> json_dump(EmptyArr)),
       tmp_files |-> 0] }

\* The process starts on one of the data directories imgs.
StartOn(imgs) ==
    /\ \E img \in imgs :
          /\ cache_file = img.cache_file
          /\ extra_file = img.extra_file
          /\ backups = img.backups
          /\ extra_backups = img.extra_backups
          /\ tmp_files = img.tmp_files
    /\ quarantined = {}
    /\ pokemon_cache = EmptyObj
    /\ extra_cache = EmptyObj
    /\ ENABLE_VERBOSE_LOGGING = FALSE
    /\ now = StartTime
    /\ loaded = FALSE
    /\ last = NoStartObs
    /\ obtained = <<>>
    /\ ops = 0
    /\ faults = 0
    /\ WriteQuiet
    /\ HttpQuiet

Init == StartOn(DiskImages)

\* Lines 75-89 and 92-106: load one store's file; on a read or parse
\* failure rename the file aside and start empty.
LoadFileDeleting(file, name, t) ==
    IF ~file.exists THEN [mem |-> EmptyObj, file |-> file, bad |-> {}]
    ELSE LET r == json_load(file.data)
         IN  IF r.ok THEN [mem |-> r.val, file |-> file, bad |-> {}]
             ELSE [mem |-> EmptyObj, file |-> NoFile, bad |-> {}]

LoadFile(file, name, t) ==
    IF ~file.exists THEN [mem |-> EmptyObj, file |-> file, bad |-> {}]
    ELSE LET r == json_load(file.data)
         IN  IF r.ok THEN [mem |-> r.val, file |-> file, bad |-> {}]
             ELSE [mem |-> EmptyObj, file |-> NoFile,
                   bad |-> {[name |-> name, ts |-> strftime(t), data |-> file.data]}]

\* The import-time code of cache.py (lines 75-128).
Startup ==
    /\ ~loaded
    /\ LET p == LoadFile(cache_file, "pokemon_cache.json", now)
           e == LoadFile(extra_file, "extra_cache.json", now)
           ec == Normalize(e.mem)
       IN  /\ pokemon_cache' = p.mem
           /\ extra_cache' = ec
           /\ quarantined' = quarantined \cup p.bad \cup e.bad
           /\ cache_file' = IF p.file.exists THEN p.file
                            ELSE AtomicWrite(p.file, p.mem, "none").file
           /\ extra_file' = IF e.file.exists THEN e.file
                            ELSE AtomicWrite(e.file, ec, "none").file
    /\ tmp_files' = 0
    /\ loaded' = TRUE
    /\ last' = Obs("startup", "", "", PyNone, 0, PyNone, 0, 0)
    /\ UNCHANGED <<ENABLE_VERBOSE_LOGGING, backups, extra_backups, now, obtained,
                   ops, faults, writeVars, httpVars>>

\* One second passes.
Tick ==
    /\ loaded
    /\ now < MaxTime
    /\ now' = now + 1
    /\ UNCHANGED <<pokemon_cache, extra_cache, ENABLE_VERBOSE_LOGGING, cache_file,
                   extra_file, backups, extra_backups, tmp_files, quarantined,
                   loaded, last, obtained, ops, faults, writeVars, httpVars>>

\* A handler may be called: the module is loaded and the budget allows it.
CanCall == loaded /\ ops < MaxOps /\ pc = "idle"

(***************************************************************************)
(* The primary store.                                                      *)
(***************************************************************************)
\* What get_pokemon_fn = pokeapi.get_pokemon yields (pokeapi.py:6-11): None
\* on a status other than 200, else the parsed body; requests.get may raise.
PokemonOutcomes == {PyNone, EmptyObj, Raised} \cup PokemonDocs

\* get_pokemon_cached(name, get_pokemon_fn), cache.py:228-240.
get_pokemon_cached ==
    /\ CanCall
    /\ \E name \in RawNames :
         LET key == Lower(name)
         IN  IF Cached(pokemon_cache.v, key)
             THEN /\ last' = Obs("get_pokemon_cached", name, key, pokemon_cache.v[key],
                                 0, PyNone, 0, 0)
                  /\ UNCHANGED <<pokemon_cache, cache_file, tmp_files, obtained, faults>>
             ELSE \E data \in PokemonOutcomes, fault \in FaultKinds :
                    IF data # Raised /\ Truthy(data)
                    THEN LET w == AtomicWrite(cache_file, JObj(MapPut(pokemon_cache.v, key, data)), fault)
                         IN  /\ FaultAllowed(fault)
                             /\ pokemon_cache' = JObj(MapPut(pokemon_cache.v, key, data))
                             /\ cache_file' = w.file
                             /\ tmp_files' = tmp_files + w.leak
                             /\ faults' = faults + FaultCount(fault)
                             /\ obtained' = MapPut(obtained, <<"pokemon", key>>, data)
                             /\ last' = Obs("get_pokemon_cached", name, key, data, 1, data,
                                            1, IF w.ok THEN 1 ELSE 0)
                    ELSE /\ fault = "none"
                         /\ last' = Obs("get_pokemon_cached", name, key, data, 1, data, 0, 0)
                         /\ UNCHANGED <<pokemon_cache, cache_file, tmp_files, obtained, faults>>
    /\ ops' = ops + 1
    /\ UNCHANGED <<extra_cache, ENABLE_VERBOSE_LOGGING, extra_file, backups,
                   extra_backups, quarantined, now, loaded, writeVars, httpVars>>

\* refresh_cache(), cache.py:386-395; os.remove is taken to succeed.
refresh_cache ==
    /\ CanCall
    /\ pokemon_cache' = EmptyObj
    /\ cache_file' = NoFile
    /\ obtained' = Forget(obtained, {"pokemon"})
    /\ last' = Obs("refresh_cache", "", "", PyNone, 0, PyNone, 0, 0)
    /\ ops' = ops + 1
    /\ UNCHANGED <<extra_cache, ENABLE_VERBOSE_LOGGING, extra_file, backups,
                   extra_backups, tmp_files, quarantined, now, loaded, faults,
                   writeVars, httpVars>>

\* backup_cache(), cache.py:397-404.
backup_cache ==
    /\ CanCall
    /\ \E fault \in FaultKinds :
         LET ts == strftime(now)
             old == IF ts \in DOMAIN backups THEN File(backups[ts]) ELSE NoFile
             w == AtomicWrite(old, pokemon_cache, fault)
         IN  /\ FaultAllowed(fault)
             /\ backups' = IF w.file.exists THEN MapPut(backups, ts, w.file.data) ELSE backups
             /\ tmp_files' = tmp_files + w.leak
             /\ faults' = faults + FaultCount(fault)
             /\ last' = Obs("backup_cache", "", ts, PyNone, 0, PyNone, 1, IF w.ok THEN 1 ELSE 0)
    /\ ops' = ops + 1
    /\ UNCHANGED <<pokemon_cache, extra_cache, ENABLE_VERBOSE_LOGGING, cache_file,
                   extra_file, extra_backups, quarantined, now, loaded, obtained,
                   writeVars, httpVars>>

\* recover_cache(), cache.py:406-424.  shutil.copyfile is taken as a whole.
recover_cache ==
    /\ CanCall
    /\ IF DOMAIN backups = {}
       THEN /\ last' = Obs("recover_cache", "", "", Outcome(FALSE), 0, PyNone, 0, 0)
            /\ UNCHANGED <<pokemon_cache, cache_file, tmp_files, obtained, faults>>
       ELSE LET src == NewestBackup(DOMAIN backups)
                copied == File(backups[src])
                r == json_load(copied.data)
            IN  IF ~r.ok
                THEN /\ cache_file' = copied
                     /\ last' = Obs("recover_cache", "", src, Outcome(FALSE), 0, PyNone, 0, 0)
                     /\ UNCHANGED <<pokemon_cache, tmp_files, obtained, faults>>
                ELSE \E fault \in FaultKinds :
                       LET w == AtomicWrite(copied, r.val, fault)
                       IN  /\ FaultAllowed(fault)
                           /\ pokemon_cache' = r.val
                           /\ cache_file' = w.file
                           /\ tmp_files' = tmp_files + w.leak
                           /\ faults' = faults + FaultCount(fault)
                           /\ obtained' = Forget(obtained, {"pokemon"})
                           /\ last' = Obs("recover_cache", "", src, Outcome(TRUE), 0, PyNone,
                                          1, IF w.ok THEN 1 ELSE 0)
    /\ ops' = ops + 1
    /\ UNCHANGED <<extra_cache, ENABLE_VERBOSE_LOGGING, extra_file, backups,
                   extra_backups, quarantined, now, loaded, writeVars, httpVars>>

(***************************************************************************)
(* The secondary store.                                                    *)
(***************************************************************************)
\* A variety entry and a species document of /pokemon-species/.
Variety(is_default, name) ==
    JObj(("is_default" :> JBool(is_default)) @@ ("pokemon" :> JObj("name" :> JStr(name))))
SpeciesWithDefault ==
    JObj("varieties" :> JArr(<<Variety(FALSE, "w"), Variety(TRUE, "x"), Variety(TRUE, "y")>>))
SpeciesNoDefault == JObj("varieties" :> JArr(<<Variety(FALSE, "w")>>))
SpeciesDocs == {SpeciesWithDefault, SpeciesNoDefault}

\* What pokeapi.get_species yields (pokeapi.py:13-18): {} on a status other
\* than 200, else the parsed body; requests.get may raise.
SpeciesOutcomes == {EmptyObj, Raised} \cup SpeciesDocs

\* What pokeapi.get_evolution_chain yields (pokeapi.py:28-47): [] on a
\* failure, else the list of names; requests.get may raise.
EvolutionOutcomes == {EmptyArr, Raised, JArr(<<JStr("a"), JStr("b")>>)}

\* What _json_fetch yields (cache.py:46-49): the parsed body of a 200
\* response, whatever JSON it is, or an exception.
GenerationBody ==
    JObj(("id" :> JNum(1)) @@ ("name" :> JStr("g")) @@ ("main_region" :> JStr("r"))
         @@ ("pokemon_species" :> JArr(<<JObj("name" :> JStr("a"))>>)))
TypeBody ==
    JObj(("id" :> JNum(1)) @@ ("name" :> JStr("t")) @@ ("damage_relations" :> JObj("double_damage_to" :> EmptyArr))
         @@ ("pokemon" :> JArr(<<JObj("pokemon" :> JObj("name" :> JStr("a")))>>)))
GenerationOutcomes == {Raised, PyNone, EmptyObj, EmptyArr, GenerationBody}
TypeOutcomes == {Raised, PyNone, EmptyObj, EmptyArr, TypeBody}

\* save_extra_cache() after the secondary store has become ec
\* (cache.py:379-384): the changes of the disk.
SaveExtra(ec, fault) == AtomicWrite(extra_file, ec, fault)

\* get_species_cached(name, autosave), cache.py:242-255, as a function of
\* the store ec and of what get_species yields on a miss: the store
\* afterwards, the value returned, whether the remote was asked, whether
\* the entry was stored.
SpeciesCachedDroppingEntry(ec, name, data) ==
    LET key == Lower(name)
    IN  IF Cached(Sec(ec, "species"), key)
        THEN [ec |-> ec, ret |-> Sec(ec, "species")[key], fetched |-> FALSE, stored |-> FALSE]
        ELSE [ec |-> ec, ret |-> data, fetched |-> TRUE,
              stored |-> data # Raised /\ Truthy(data)]

SpeciesCached(ec, name, data) ==
    LET key == Lower(name)
    IN  IF Cached(Sec(ec, "species"), key)
        THEN [ec |-> ec, ret |-> Sec(ec, "species")[key], fetched |-> FALSE, stored |-> FALSE]
        ELSE IF data # Raised /\ Truthy(data)
        THEN [ec |-> SetSec(ec, "species", MapPut(Sec(ec, "species"), key, data)),
              ret |-> data, fetched |-> TRUE, stored |-> TRUE]
        ELSE [ec |-> ec, ret |-> data, fetched |-> TRUE, stored |-> FALSE]

\* The handler get_species_cached(name), autosave left at True.
get_species_cached ==
    /\ CanCall
    /\ \E name \in RawNames :
         LET key == Lower(name)
         IN  IF Cached(Sec(extra_cache, "species"), key)
             THEN /\ last' = Obs("get_species_cached", name, key,
                                 SpeciesCached(extra_cache, name, EmptyObj).ret, 0, PyNone, 0, 0)
                  /\ UNCHANGED <<extra_cache, extra_file, tmp_files, obtained, faults>>
             ELSE \E data \in SpeciesOutcomes, fault \in FaultKinds :
                    LET r == SpeciesCached(extra_cache, name, data)
                    IN  IF r.stored
                        THEN LET w == SaveExtra(r.ec, fault)
                             IN  /\ FaultAllowed(fault)
                                 /\ extra_cache' = r.ec
                                 /\ extra_file' = w.file
                                 /\ tmp_files' = tmp_files + w.leak
                                 /\ faults' = faults + FaultCount(fault)
                                 /\ obtained' = MapPut(obtained, <<"species", key>>, data)
                                 /\ last' = Obs("get_species_cached", name, key, r.ret, 1, data,
                                                1, IF w.ok THEN 1 ELSE 0)
                        ELSE /\ fault = "none"
                             /\ last' = Obs("get_species_cached", name, key, r.ret, 1, data, 0, 0)
                             /\ UNCHANGED <<extra_cache, extra_file, tmp_files, obtained, faults>>
    /\ ops' = ops + 1
    /\ UNCHANGED <<pokemon_cache, ENABLE_VERBOSE_LOGGING, cache_file, backups,
                   extra_backups, quarantined, now, loaded, writeVars, httpVars>>

\* get_evolution_chain_cached(species_data), cache.py:257-269; url is
\* species_data["evolution_chain"]["url"], used as the key as it is.
get_evolution_chain_cached ==
    /\ CanCall
    /\ \E url \in RawNames :
         IF Cached(Sec(extra_cache, "evolution"), url)
         THEN /\ last' = Obs("get_evolution_chain_cached", url, url,
                             Sec(extra_cache, "evolution")[url], 0, PyNone, 0, 0)
              /\ UNCHANGED <<extra_cache, extra_file, tmp_files, obtained, faults>>
         ELSE \E data \in EvolutionOutcomes, fault \in FaultKinds :
                IF data # Raised /\ Truthy(data)
                THEN LET ec == SetSec(extra_cache, "evolution",
                                      MapPut(Sec(extra_cache, "evolution"), url, data))
                         w == SaveExtra(ec, fault)
                     IN  /\ FaultAllowed(fault)
                         /\ extra_cache' = ec
                         /\ extra_file' = w.file
                         /\ tmp_files' = tmp_files + w.leak
                         /\ faults' = faults + FaultCount(fault)
                         /\ obtained' = MapPut(obtained, <<"evolution", url>>, data)
                         /\ last' = Obs("get_evolution_chain_cached", url, url, data, 1, data,
                                        1, IF w.ok THEN 1 ELSE 0)
                ELSE /\ fault = "none"
                     /\ last' = Obs("get_evolution_chain_cached", url, url, data, 1, data, 0, 0)
                     /\ UNCHANGED <<extra_cache, extra_file, tmp_files, obtained, faults>>
    /\ ops' = ops + 1
    /\ UNCHANGED <<pokemon_cache, ENABLE_VERBOSE_LOGGING, cache_file, backups,
                   extra_backups, quarantined, now, loaded, writeVars, httpVars>>

\* The trimmed generation payload of cache.py:280-284.
CleanGeneration(data) ==
    JObj(("id" :> Get(data, "id", PyNone)) @@ ("name" :> Get(data, "name", PyNone))
         @@ ("pokemon_species" :> Get(data, "pokemon_species", EmptyArr)))

\* get_generation_cached(gen_id), cache.py:271-290; key is str(gen_id).
\* A body that is not an object makes data.get raise inside the try.
get_generation_cached ==
    /\ CanCall
    /\ \E gen_id \in RawNames :
         LET key == gen_id
         IN  IF Cached(Sec(extra_cache, "generation"), key)
             THEN /\ last' = Obs("get_generation_cached", gen_id, key,
                                 Sec(extra_cache, "generation")[key], 0, PyNone, 0, 0)
                  /\ UNCHANGED <<extra_cache, extra_file, tmp_files, obtained, faults>>
             ELSE \E data \in GenerationOutcomes, fault \in FaultKinds :
                    IF data # Raised /\ IsObj(data)
                    THEN LET cleaned == CleanGeneration(data)
                             ec == SetSec(extra_cache, "generation",
                                          MapPut(Sec(extra_cache, "generation"), key, cleaned))
                             w == SaveExtra(ec, fault)
                         IN  /\ FaultAllowed(fault)
                             /\ extra_cache' = ec
                             /\ extra_file' = w.file
                             /\ tmp_files' = tmp_files + w.leak
                             /\ faults' = faults + FaultCount(fault)
                             /\ obtained' = MapPut(obtained, <<"generation", key>>, cleaned)
                             /\ last' = Obs("get_generation_cached", gen_id, key, cleaned, 1, data,
                                            1, IF w.ok THEN 1 ELSE 0)
                    ELSE /\ fault = "none"
                         /\ last' = Obs("get_generation_cached", gen_id, key, PyNone, 1, data, 0, 0)
                         /\ UNCHANGED <<extra_cache, extra_file, tmp_files, obtained, faults>>
    /\ ops' = ops + 1
    /\ UNCHANGED <<pokemon_cache, ENABLE_VERBOSE_LOGGING, cache_file, backups,
                   extra_backups, quarantined, now, loaded, writeVars, httpVars>>

\* The trimmed type payload of cache.py:313-317.
CleanType(data, type_name) ==
    JObj(("name" :> Get(data, "name", JStr(type_name)))
         @@ ("damage_relations" :> Get(data, "damage_relations", EmptyObj))
         @@ ("pokemon" :> Get(data, "pokemon", EmptyArr)))

\* m[type_name]["pokemon"] = data.get("pokemon", []), cache.py:302: the
\* cached entry with the member list of the fetched document put in.
BackfillDroppingRest(entry, data) == JObj("pokemon" :> Get(data, "pokemon", EmptyArr))
Backfill(entry, data) == JObj(MapPut(entry.v, "pokemon", Get(data, "pokemon", EmptyArr)))

\* get_type_cached(type_name), cache.py:292-323.  On a hit whose entry has
\* no "pokemon" member the member list is fetched and backfilled.
get_type_cached ==
    /\ CanCall
    /\ \E name \in RawNames :
         LET type_name == Lower(name)
             m == Sec(extra_cache, "type")
         IN  IF Cached(m, type_name) /\ "pokemon" \in DOMAIN m[type_name].v
             THEN /\ last' = Obs("get_type_cached", name, type_name, m[type_name], 0, PyNone, 0, 0)
                  /\ UNCHANGED <<extra_cache, extra_file, tmp_files, obtained, faults>>
             ELSE \E data \in TypeOutcomes, fault \in FaultKinds :
                    IF data # Raised /\ IsObj(data)
                    THEN LET entry == IF Cached(m, type_name)
                                      THEN Backfill(m[type_name], data)
                                      ELSE CleanType(data, type_name)
                             ec == SetSec(extra_cache, "type", MapPut(m, type_name, entry))
                             w == SaveExtra(ec, fault)
                         IN  /\ FaultAllowed(fault)
                             /\ extra_cache' = ec
                             /\ extra_file' = w.file
                             /\ tmp_files' = tmp_files + w.leak
                             /\ faults' = faults + FaultCount(fault)
                             /\ obtained' = MapPut(obtained, <<"type", type_name>>, entry)
                             /\ last' = Obs("get_type_cached", name, type_name, entry, 1, data,
                                            1, IF w.ok THEN 1 ELSE 0)
                    ELSE /\ fault = "none"
                         /\ last' = Obs("get_type_cached", name, type_name,
                                        IF Cached(m, type_name) THEN m[type_name] ELSE PyNone,
                                        1, data, 0, 0)
                         /\ UNCHANGED <<extra_cache, extra_file, tmp_files, obtained, faults>>
    /\ ops' = ops + 1
    /\ UNCHANGED <<pokemon_cache, ENABLE_VERBOSE_LOGGING, cache_file, backups,
                   extra_backups, quarantined, now, loaded, writeVars, httpVars>>

\* The loop of cache.py:334-337 and 355-357: the pokemon name of the first
\* variety that is marked is_default and has a name; key if there is none.
RECURSIVE FirstDefault(_, _)
FirstDefault(vs, key) ==
    IF Len(vs) = 0 THEN key
    ELSE LET v == Head(vs)
         IN  IF /\ Truthy(Get(v, "is_default", PyNone))
                /\ Truthy(Get(Get(v, "pokemon", EmptyObj), "name", PyNone))
             THEN v.v["pokemon"].v["name"].v
             ELSE FirstDefault(Tail(vs), key)

\* sp = get_species_cached(key, autosave=False) or {}, then the loop.
DefaultOf(ret, key) ==
    LET sp == IF Truthy(ret) THEN ret ELSE EmptyObj
    IN  FirstDefault(Get(sp, "varieties", EmptyArr).v, key)

\* The species whose document a resolution of names would have to fetch.
NeedFetch(ec, names) ==
    {Lower(names[i]) : i \in DOMAIN names}
        \ (DOMAIN Sec(ec, "species_default") \cup DOMAIN Sec(ec, "species"))

\* get_default_variety_cached(species_name), cache.py:325-341: one lookup,
\* staged in memory, no disk write.
get_default_variety_cached ==
    /\ CanCall
    /\ \E species_name \in SpeciesNames :
         LET key == Lower(species_name)
             m == Sec(extra_cache, "species_default")
         IN  IF Cached(m, key)
             THEN /\ last' = Obs("get_default_variety_cached", species_name, key, m[key],
                                 0, PyNone, 0, 0)
                  /\ UNCHANGED <<extra_cache, obtained>>
             ELSE \E data \in IF key \in NeedFetch(extra_cache, <<species_name>>)
                              THEN SpeciesOutcomes ELSE {EmptyObj} :
                    LET r == SpeciesCached(extra_cache, key, data)
                        name == JStr(DefaultOf(r.ret, key))
                    IN  IF r.ret = Raised
                        THEN /\ last' = Obs("get_default_variety_cached", species_name, key,
                                            Raised, 1, data, 0, 0)
                             /\ UNCHANGED <<extra_cache, obtained>>
                        ELSE /\ extra_cache' = SetSec(r.ec, "species_default", MapPut(m, key, name))
                             /\ obtained' = IF r.stored
                                            THEN MapPut(obtained, <<"species", key>>, data)
                                            ELSE obtained
                             /\ last' = Obs("get_default_variety_cached", species_name, key, name,
                                            IF r.fetched THEN 1 ELSE 0,
                                            IF r.fetched THEN data ELSE PyNone, 0, 0)
    /\ ops' = ops + 1
    /\ UNCHANGED <<pokemon_cache, ENABLE_VERBOSE_LOGGING, cache_file, extra_file,
                   backups, extra_backups, tmp_files, quarantined, now, loaded,
                   faults, writeVars, httpVars>>

\* The loop of bulk_prime_default_varieties (cache.py:348-362) over the
\* names left, from the loop state st: the store, the list out, the
\* counter added, the fetches made, what the fetches stored, and whether
\* get_species raised (which ends the loop and the call).
RECURSIVE BulkLoop(_, _, _)
BulkLoop(names, resp, st) ==
    IF Len(names) = 0 \/ st.raised THEN st
    ELSE LET key == Lower(Head(names))
             m == Sec(st.ec, "species_default")
         IN  IF Cached(m, key)
             THEN BulkLoop(Tail(names), resp, [st EXCEPT !.out = Append(@, m[key])])
             ELSE LET data == IF key \in DOMAIN resp THEN resp[key] ELSE EmptyObj
                      r == SpeciesCached(st.ec, key, data)
                      name == JStr(DefaultOf(r.ret, key))
                  IN  IF r.ret = Raised
                      THEN [st EXCEPT !.raised = TRUE, !.fetches = @ + 1]
                      ELSE BulkLoop(Tail(names), resp,
                             [ec |-> SetSec(r.ec, "species_default", MapPut(m, key, name)),
                              out |-> Append(st.out, name),
                              added |-> st.added + 1,
                              fetches |-> st.fetches + (IF r.fetched THEN 1 ELSE 0),
                              ob |-> IF r.stored THEN MapPut(st.ob, <<"species", key>>, data)
                                     ELSE st.ob,
                              raised |-> FALSE])

Batches == UNION {[1..n -> SpeciesNames] : n \in 0..MaxBatch}

\* bulk_prime_default_varieties(species_names), cache.py:343-366.
bulk_prime_default_varieties ==
    /\ CanCall
    /\ \E names \in Batches :
         \E resp \in [NeedFetch(extra_cache, names) -> SpeciesOutcomes] :
           LET st == BulkLoop(names, resp,
                              [ec |-> extra_cache, out |-> <<>>, added |-> 0, fetches |-> 0,
                               ob |-> obtained, raised |-> FALSE])
           IN  /\ extra_cache' = st.ec
               /\ obtained' = st.ob
               /\ IF ~st.raised /\ st.added > 0
                  THEN \E fault \in FaultKinds :
                         LET w == SaveExtra(st.ec, fault)
                         IN  /\ FaultAllowed(fault)
                             /\ extra_file' = w.file
                             /\ tmp_files' = tmp_files + w.leak
                             /\ faults' = faults + FaultCount(fault)
                             /\ last' = Obs("bulk_prime_default_varieties", names, "",
                                            JArr(st.out), st.fetches, PyNone, 1,
                                            IF w.ok THEN 1 ELSE 0)
                  ELSE /\ last' = Obs("bulk_prime_default_varieties", names, "",
                                      IF st.raised THEN Raised ELSE JArr(st.out),
                                      st.fetches, PyNone, 0, 0)
                       /\ UNCHANGED <<extra_file, tmp_files, faults>>
    /\ ops' = ops + 1
    /\ UNCHANGED <<pokemon_cache, ENABLE_VERBOSE_LOGGING, cache_file, backups,
                   extra_backups, quarantined, now, loaded, writeVars, httpVars>>

\* refresh_extra_cache(), cache.py:435-446: the file is removed (os.remove
\* is taken to succeed), then written again by save_extra_cache.
refresh_extra_cache ==
    /\ CanCall
    /\ \E fault \in FaultKinds :
         LET w == AtomicWrite(NoFile, EmptyExtra, fault)
         IN  /\ FaultAllowed(fault)
             /\ extra_cache' = EmptyExtra
             /\ extra_file' = w.file
             /\ tmp_files' = tmp_files + w.leak
             /\ faults' = faults + FaultCount(fault)
             /\ last' = Obs("refresh_extra_cache", "", "", PyNone, 0, PyNone, 1,
                            IF w.ok THEN 1 ELSE 0)
    /\ obtained' = Forget(obtained, ExtraSections)
    /\ ops' = ops + 1
    /\ UNCHANGED <<pokemon_cache, ENABLE_VERBOSE_LOGGING, cache_file, backups,
                   extra_backups, quarantined, now, loaded, writeVars, httpVars>>

\* backup_extra_cache(), cache.py:426-433.
backup_extra_cache ==
    /\ CanCall
    /\ \E fault \in FaultKinds :
         LET ts == strftime(now)
             old == IF ts \in DOMAIN extra_backups THEN File(extra_backups[ts]) ELSE NoFile
             w == AtomicWrite(old, extra_cache, fault)
         IN  /\ FaultAllowed(fault)
             /\ extra_backups' = IF w.file.exists THEN MapPut(extra_backups, ts, w.file.data)
                                 ELSE extra_backups
             /\ tmp_files' = tmp_files + w.leak
             /\ faults' = faults + FaultCount(fault)
             /\ last' = Obs("backup_extra_cache", "", ts, PyNone, 0, PyNone, 1,
                            IF w.ok THEN 1 ELSE 0)
    /\ ops' = ops + 1
    /\ UNCHANGED <<pokemon_cache, extra_cache, ENABLE_VERBOSE_LOGGING, cache_file,
                   extra_file, backups, quarantined, now, loaded, obtained,
                   writeVars, httpVars>>

\* recover_extra_cache(), cache.py:448-469.  shutil.copyfile is taken as a
\* whole; setdefault on a recovered value that is no dict raises.
recover_extra_cache ==
    /\ CanCall
    /\ IF DOMAIN extra_backups = {}
       THEN /\ last' = Obs("recover_extra_cache", "", "", Outcome(FALSE), 0, PyNone, 0, 0)
            /\ UNCHANGED <<extra_cache, extra_file, tmp_files, obtained, faults>>
       ELSE LET src == NewestBackup(DOMAIN extra_backups)
                copied == File(extra_backups[src])
                r == json_load(copied.data)
            IN  IF ~r.ok \/ ~IsObj(r.val)
                THEN /\ extra_file' = copied
                     /\ last' = Obs("recover_extra_cache", "", src, Outcome(FALSE), 0, PyNone, 0, 0)
                     /\ UNCHANGED <<extra_cache, tmp_files, obtained, faults>>
                ELSE \E fault \in FaultKinds :
                       LET recovered == Normalize(r.val)
                           w == AtomicWrite(copied, recovered, fault)
                       IN  /\ FaultAllowed(fault)
                           /\ extra_cache' = recovered
                           /\ extra_file' = w.file
                           /\ tmp_files' = tmp_files + w.leak
                           /\ faults' = faults + FaultCount(fault)
                           /\ obtained' = Forget(obtained, ExtraSections)
                           /\ last' = Obs("recover_extra_cache", "", src, Outcome(TRUE), 0, PyNone,
                                          1, IF w.ok THEN 1 ELSE 0)
    /\ ops' = ops + 1
    /\ UNCHANGED <<pokemon_cache, ENABLE_VERBOSE_LOGGING, cache_file, backups,
                   extra_backups, quarantined, now, loaded, writeVars, httpVars>>

(***************************************************************************)
(* The lists bucket (cache.py:141-224).                                    *)
(***************************************************************************)
\* lists = extra_cache.setdefault(LISTS_KEY, {})
WithLists(ec) == IF LISTS_KEY \in DOMAIN ec.v THEN ec ELSE JObj(MapPut(ec.v, LISTS_KEY, EmptyObj))

\* A list endpoint's body: {"results": [{"name": n}, ...]}.
Named(n) == JObj("name" :> JStr(n))
ResultsBody(ns) == JObj("results" :> JArr([i \in DOMAIN ns |-> Named(ns[i])]))

\* [p.get("name") for p in (data or {}).get("results", []) if p.get("name")]
ResultNames(data) ==
    LET d == IF Truthy(data) THEN data ELSE EmptyObj
        rs == Get(d, "results", EmptyArr).v
        named == SelectSeq(rs, LAMBDA p : Truthy(Get(p, "name", PyNone)))
    IN  [i \in DOMAIN named |-> named[i].v["name"].v]

\* What _json_fetch yields for the list of all pokemon.
PokemonListOutcomes == {Raised, PyNone, ResultsBody(<<"a", "b">>)}

\* get_all_pokemon_names_cached(), cache.py:141-162.
get_all_pokemon_names_cached ==
    /\ CanCall
    /\ LET ec == WithLists(extra_cache)
           lists == Sec(ec, LISTS_KEY)
           key == "all_pokemon"
       IN  IF Cached(lists, key)
           THEN /\ last' = Obs("get_all_pokemon_names_cached", "", key, lists[key], 0, PyNone, 0, 0)
                /\ extra_cache' = ec
                /\ UNCHANGED <<extra_file, tmp_files, faults>>
           ELSE \E data \in PokemonListOutcomes, fault \in FaultKinds :
                  IF data # Raised
                  THEN LET names == JArr([i \in DOMAIN ResultNames(data) |-> JStr(ResultNames(data)[i])])
                           ec2 == SetSec(ec, LISTS_KEY, MapPut(lists, key, names))
                           w == SaveExtra(ec2, fault)
                       IN  /\ FaultAllowed(fault)
                           /\ extra_cache' = ec2
                           /\ extra_file' = w.file
                           /\ tmp_files' = tmp_files + w.leak
                           /\ faults' = faults + FaultCount(fault)
                           /\ last' = Obs("get_all_pokemon_names_cached", "", key, names, 1, data,
                                          1, IF w.ok THEN 1 ELSE 0)
                  ELSE /\ fault = "none"
                       /\ last' = Obs("get_all_pokemon_names_cached", "", key, EmptyArr, 1, data, 0, 0)
                       /\ extra_cache' = ec
                       /\ UNCHANGED <<extra_file, tmp_files, faults>>
    /\ ops' = ops + 1
    /\ UNCHANGED <<pokemon_cache, ENABLE_VERBOSE_LOGGING, cache_file, backups,
                   extra_backups, quarantined, now, loaded, obtained, writeVars, httpVars>>

\* custom_order of cache.py:180-184.
custom_order ==
    <<"grass", "fire", "water", "electric", "psychic", "dark", "fairy", "ice", "dragon",
      "normal", "flying", "fighting", "bug", "poison", "ground", "rock", "ghost", "steel",
      "stellar", "unknown">>
SeqSet(q) == {q[i] : i \in DOMAIN q}

\* sorted(names) on the type names that custom_order does not list; the
\* remote is taken to know at most these, here in ascending order.
NewTypes == <<"light", "sound">>
sorted(names) == SelectSeq(NewTypes, LAMBDA t : t \in names)

\* The list that get_all_types_cached builds from the fetched names
\* (cache.py:188-196).
OrderedTypesExtrasFirst(api_names, exclude_special) ==
    sorted(api_names \ SeqSet(custom_order))
        \o SelectSeq(custom_order, LAMBDA t : t \in api_names)

OrderedTypes(api_names, exclude_special) ==
    LET ordered == SelectSeq(custom_order, LAMBDA t : t \in api_names)
                      \o sorted(api_names \ SeqSet(custom_order))
    IN  IF exclude_special
        THEN SelectSeq(ordered, LAMBDA t : t \notin {"stellar", "unknown"})
        ELSE ordered

\* The except branch, cache.py:204-209.
FallbackTypes(exclude_special) ==
    IF ~exclude_special THEN custom_order \o <<"stellar", "unknown">> ELSE custom_order

\* What _json_fetch yields for the list of types.
TypeListOutcomes ==
    {Raised, PyNone, ResultsBody(<<"sound", "stellar", "fire", "light", "grass", "fire">>)}

StrArr(q) == JArr([i \in DOMAIN q |-> JStr(q[i])])

\* get_all_types_cached(exclude_special), cache.py:164-209.
get_all_types_cached ==
    /\ CanCall
    /\ \E exclude_special \in BOOLEAN :
         LET ec == WithLists(extra_cache)
             lists == Sec(ec, LISTS_KEY)
             cache_key == IF exclude_special THEN "all_types_no_special" ELSE "all_types"
         IN  IF Cached(lists, cache_key)
             THEN /\ last' = Obs("get_all_types_cached", JBool(exclude_special), cache_key,
                                 lists[cache_key], 0, PyNone, 0, 0)
                  /\ extra_cache' = ec
                  /\ UNCHANGED <<extra_file, tmp_files, faults>>
             ELSE \E data \in TypeListOutcomes, fault \in FaultKinds :
                    IF data # Raised
                    THEN LET ordered == StrArr(OrderedTypes(SeqSet(ResultNames(data)),
                                                            exclude_special))
                             ec2 == SetSec(ec, LISTS_KEY, MapPut(lists, cache_key, ordered))
                             w == SaveExtra(ec2, fault)
                         IN  /\ FaultAllowed(fault)
                             /\ extra_cache' = ec2
                             /\ extra_file' = w.file
                             /\ tmp_files' = tmp_files + w.leak
                             /\ faults' = faults + FaultCount(fault)
                             /\ last' = Obs("get_all_types_cached", JBool(exclude_special),
                                            cache_key, ordered, 1, data, 1, IF w.ok THEN 1 ELSE 0)
                    ELSE /\ fault = "none"
                         /\ last' = Obs("get_all_types_cached", JBool(exclude_special), cache_key,
                                        StrArr(FallbackTypes(exclude_special)), 1, data, 0, 0)
                         /\ extra_cache' = ec
                         /\ UNCHANGED <<extra_file, tmp_files, faults>>
    /\ ops' = ops + 1
    /\ UNCHANGED <<pokemon_cache, ENABLE_VERBOSE_LOGGING, cache_file, backups,
                   extra_backups, quarantined, now, loaded, obtained, writeVars, httpVars>>

\* The keys arguments of refresh_lists: None, or a list of list keys.
KeysArgs ==
    {PyNone, StrArr(<<>>), StrArr(<<"all_pokemon">>), StrArr(<<"all_types", "all_pokemon">>),
     StrArr(<<"all_types_no_special">>)}

\* refresh_lists(keys), cache.py:211-224.
refresh_lists ==
    /\ CanCall
    /\ \E keys \in KeysArgs, fault \in FaultKinds :
         LET ec == WithLists(extra_cache)
             lists == Sec(ec, LISTS_KEY)
             named == IF Truthy(keys) THEN {keys.v[i].v : i \in DOMAIN keys.v} ELSE DOMAIN lists
             ec2 == SetSec(ec, LISTS_KEY, [k \in DOMAIN lists \ named |-> lists[k]])
             w == SaveExtra(ec2, fault)
         IN  /\ FaultAllowed(fault)
             /\ extra_cache' = ec2
             /\ extra_file' = w.file
             /\ tmp_files' = tmp_files + w.leak
             /\ faults' = faults + FaultCount(fault)
             /\ last' = Obs("refresh_lists", keys, "", PyNone, 0, PyNone, 1, IF w.ok THEN 1 ELSE 0)
    /\ ops' = ops + 1
    /\ UNCHANGED <<pokemon_cache, ENABLE_VERBOSE_LOGGING, cache_file, backups,
                   extra_backups, quarantined, now, loaded, obtained, writeVars, httpVars>>

(***************************************************************************)
(* The operator routes of app.py that do more than call one handler.       *)
(***************************************************************************)
\* toggle_logging(), app.py:38-42.
toggle_logging ==
    /\ CanCall
    /\ ENABLE_VERBOSE_LOGGING' = ~ENABLE_VERBOSE_LOGGING
    /\ last' = Obs("toggle_logging", "", "", PyNone, 0, PyNone, 0, 0)
    /\ ops' = ops + 1
    /\ UNCHANGED <<pokemon_cache, extra_cache, cache_file, extra_file, backups,
                   extra_backups, tmp_files, quarantined, now, loaded, obtained,
                   faults, writeVars, httpVars>>

\* One re-priming call of the route on a list key that is not cached: the
\* list built from what the fetch yielded is stored and saved; when the
\* fetch raised nothing is stored.  st carries the secondary store, its
\* file, and the counts of the route so far.
PrimeList(st, key, value, fault) ==
    IF value = Raised THEN st
    ELSE LET ec2 == SetSec(st.ec, LISTS_KEY, MapPut(Sec(st.ec, LISTS_KEY), key, value))
             w == AtomicWrite(st.file, ec2, fault)
         IN  [ec |-> ec2, file |-> w.file, leak |-> st.leak + w.leak,
              saves |-> st.saves + 1, saved |-> st.saved + (IF w.ok THEN 1 ELSE 0)]

\* The lists that the two list handlers build from what _json_fetch yields.
AllPokemonValue(data) ==
    IF data = Raised THEN Raised ELSE StrArr(ResultNames(data))
AllTypesValue(data, exclude_special) ==
    IF data = Raised THEN Raised
    ELSE StrArr(OrderedTypes(SeqSet(ResultNames(data)), exclude_special))

\* The faults of n writes in a row, at most budget of them failing.
FaultPlans(n, budget) ==
    {g \in [1..n -> FaultKinds] : Cardinality({i \in 1..n : g[i] # "none"}) <= budget}

\* refresh_lists_route(), app.py:75-83: refresh_lists() wipes every list
\* and saves, then the three lists are fetched, stored and saved again.
refresh_lists_route ==
    /\ CanCall
    /\ \E f \in FaultPlans(4, MaxFaults - faults) :
       \E d1 \in PokemonListOutcomes, d2, d3 \in TypeListOutcomes :
       \E s0 \in {LET ec0 == SetSec(WithLists(extra_cache), LISTS_KEY, EmptyMap)
                      w0 == AtomicWrite(extra_file, ec0, f[1])
                  IN  [ec |-> ec0, file |-> w0.file, leak |-> w0.leak,
                       saves |-> 1, saved |-> IF w0.ok THEN 1 ELSE 0]} :
       \E s1 \in {PrimeList(s0, "all_pokemon", AllPokemonValue(d1), f[2])} :
       \E s2 \in {PrimeList(s1, "all_types", AllTypesValue(d2, FALSE), f[3])} :
       \E s3 \in {PrimeList(s2, "all_types_no_special", AllTypesValue(d3, TRUE), f[4])} :
         /\ d1 = Raised => f[2] = "none"
         /\ d2 = Raised => f[3] = "none"
         /\ d3 = Raised => f[4] = "none"
         /\ extra_cache' = s3.ec
         /\ extra_file' = s3.file
         /\ tmp_files' = tmp_files + s3.leak
         /\ faults' = faults + Cardinality({i \in 1..4 : f[i] # "none"})
         /\ last' = Obs("refresh_lists_route", "", "", PyNone, 3, <<d1, d2, d3>>,
                        s3.saves, s3.saved)
    /\ ops' = ops + 1
    /\ UNCHANGED <<pokemon_cache, ENABLE_VERBOSE_LOGGING, cache_file, backups,
                   extra_backups, quarantined, now, loaded, obtained, writeVars, httpVars>>

(***************************************************************************)
(* Concurrent callers of get_pokemon_cached (cache.py:228-240), each one   *)
(* step by step through the miss path and through _atomic_write            *)
(* (cache.py:51-68).  Callers of one process share its pokemon_cache;      *)
(* callers of different processes share the data directory only.           *)
(***************************************************************************)
Workers == {1, 2}
\* The key a caller asks for, and the document its fetch obtains.
WorkerKey(w) == IF w = 1 THEN "a" ELSE "b"
WorkerDoc(w) == PokemonDoc(w)

\* tmp.name of NamedTemporaryFile(dir=d, delete=False): a name that no
\* other file of the directory has.
TempNameShared(w) == <<"tmp", 0>>
TempName(w) == <<"tmp", w>>

\* What each process loaded from the live file when it started.
StartStores == {EmptyObj, JObj("c" :> PokemonDoc(1))}

IdleWorker(p) ==
    [proc |-> p, pc |-> "idle", key |-> "", snap |-> EmptyObj, pos |-> 0,
     tmp_path |-> "None", returned |-> {}]

MapRemove(f, key) == [x \in (DOMAIN f) \ {key} |-> f[x]]

\* if name in pokemon_cache: ... (a miss), cache.py:231-235.
W_Call ==
    /\ \E w \in Workers :
         /\ workers[w].pc = "idle"
         /\ WorkerKey(w) \notin workers[w].returned
         /\ ~Cached(memory[workers[w].proc].v, WorkerKey(w))
         /\ workers' = [workers EXCEPT ![w].pc = "fetch", ![w].key = WorkerKey(w)]
    /\ UNCHANGED <<memory, temp_dir, renames, storeVars, pc, tmp, tmp_path, old_file,
                   httpVars>>

\* data = get_pokemon_fn(name); pokemon_cache[name] = data, cache.py:236-238.
W_Store ==
    /\ \E w \in Workers :
         LET p == workers[w].proc
         IN  /\ workers[w].pc = "fetch"
             /\ memory' = [memory EXCEPT ![p] = JObj(MapPut(@.v, workers[w].key, WorkerDoc(w)))]
             /\ workers' = [workers EXCEPT ![w].pc = "create"]
    /\ UNCHANGED <<temp_dir, renames, storeVars, pc, tmp, tmp_path, old_file, httpVars>>

\* save_cache() -> _atomic_write: tmp_path = None, NamedTemporaryFile(...).
W_CreateTemp ==
    /\ \E w \in Workers :
         /\ workers[w].pc = "create"
         /\ temp_dir' = MapPut(temp_dir, TempName(w), <<>>)
         /\ workers' = [workers EXCEPT ![w].pc = "dump", ![w].pos = 0,
                                       ![w].tmp_path = "None"]
    /\ UNCHANGED <<memory, renames, storeVars, pc, tmp, tmp_path, old_file, httpVars>>

\* json.dump(obj, tmp): one chunk at a time.  The opening brace is written
\* first; then the dict is iterated, and the iteration raises RuntimeError
\* when the dict has changed size since it began.
W_Dump ==
    /\ \E w \in Workers :
         LET me == workers[w]
             obj == memory[me.proc]
             snap == IF me.pos <= 1 THEN obj ELSE me.snap
             text == json_dump(snap)
         IN  /\ me.pc = "dump"
             /\ TempName(w) \in DOMAIN temp_dir
             /\ IF me.pos >= 2 /\ DOMAIN obj.v # DOMAIN me.snap.v
                THEN /\ workers' = [workers EXCEPT ![w].pc = "except"]
                     /\ UNCHANGED temp_dir
                ELSE /\ temp_dir' = [temp_dir EXCEPT ![TempName(w)] = Append(@, text[me.pos + 1])]
                     /\ workers' = [workers EXCEPT
                                      ![w].snap = snap,
                                      ![w].pos = me.pos + 1,
                                      ![w].pc = IF me.pos + 1 = Len(text) THEN "name" ELSE "dump"]
    /\ UNCHANGED <<memory, renames, storeVars, pc, tmp, tmp_path, old_file, httpVars>>

\* tmp.flush(); os.fsync(...); tmp_path = tmp.name; the file is closed.
W_Close ==
    /\ \E w \in Workers :
         /\ workers[w].pc = "name"
         /\ workers' = [workers EXCEPT ![w].pc = "replace", ![w].tmp_path = "tmp"]
    /\ UNCHANGED <<memory, temp_dir, renames, storeVars, pc, tmp, tmp_path, old_file,
                   httpVars>>

\* os.replace(tmp_path, path), then save_cache and the handler return.
W_Replace ==
    /\ \E w \in Workers :
         /\ workers[w].pc = "replace"
         /\ TempName(w) \in DOMAIN temp_dir
         /\ cache_file' = File(temp_dir[TempName(w)])
         /\ temp_dir' = MapRemove(temp_dir, TempName(w))
         /\ renames' = Append(renames, [by |-> w, store |-> workers[w].snap])
         /\ workers' = [workers EXCEPT ![w].pc = "idle",
                                       ![w].returned = @ \cup {workers[w].key}]
    /\ UNCHANGED <<memory, pc, tmp, tmp_path, old_file, httpVars>>
    /\ UNCHANGED <<pokemon_cache, extra_cache, ENABLE_VERBOSE_LOGGING, extra_file,
                   backups, extra_backups, tmp_files, quarantined, now, loaded, last,
                   obtained, ops, faults>>

\* The except clause of _atomic_write (cache.py:62-68) removes the
\* temporary file only if tmp_path is set; save_cache logs the error
\* (cache.py:376-377) and the handler returns the fetched value.
W_Except ==
    /\ \E w \in Workers :
         /\ workers[w].pc = "except"
         /\ temp_dir' = IF workers[w].tmp_path # "None" THEN MapRemove(temp_dir, TempName(w))
                        ELSE temp_dir
         /\ workers' = [workers EXCEPT ![w].pc = "idle",
                                       ![w].returned = @ \cup {workers[w].key}]
    /\ UNCHANGED <<memory, renames, storeVars, pc, tmp, tmp_path, old_file, httpVars>>

(***************************************************************************)
(* recover_cache() step by step (cache.py:406-424):                        *)
(*   copy_open  shutil.copyfile opens CACHE_FILE for writing (truncates)   *)
(*   copy       the snapshot's text reaches CACHE_FILE piecewise           *)
(*   load       json.load of CACHE_FILE, pokemon_cache = recovered         *)
(*   create...  save_cache() -> _atomic_write, the steps AW_CreateTemp on  *)
(* old_file keeps the live file as the call found it.                      *)
(***************************************************************************)
\* backups = sorted(glob(...), reverse=True); "if not backups: return False";
\* src = backups[0].
R_Begin ==
    /\ loaded
    /\ pc = "idle"
    /\ IF DOMAIN backups = {}
       THEN /\ last' = Obs("recover_cache", "", "", Outcome(FALSE), 0, PyNone, 0, 0)
            /\ UNCHANGED <<pc, old_file>>
       ELSE /\ pc' = "copy_open"
            /\ old_file' = cache_file
            /\ last' = Obs("recover_cache", "", NewestBackup(DOMAIN backups), PyNone,
                           0, PyNone, 0, 0)
    /\ UNCHANGED <<pokemon_cache, extra_cache, ENABLE_VERBOSE_LOGGING, cache_file,
                   extra_file, backups, extra_backups, tmp_files, quarantined, now,
                   loaded, obtained, ops, faults, tmp, tmp_path, workerVars, httpVars>>

\* shutil.copyfile(src, CACHE_FILE): open(dst, "wb") empties the live file.
R_Open ==
    /\ pc = "copy_open"
    /\ cache_file' = File(<<>>)
    /\ pc' = "copy"
    /\ UNCHANGED <<pokemon_cache, extra_cache, ENABLE_VERBOSE_LOGGING, extra_file,
                   backups, extra_backups, tmp_files, quarantined, now, loaded, last,
                   obtained, ops, faults, tmp, tmp_path, old_file, workerVars, httpVars>>

\* The copy loop: the next piece of the snapshot is written to the live
\* file itself.
R_Copy ==
    /\ pc = "copy"
    /\ LET text == backups[last.key]
           copied == Len(cache_file.data) + 1
       IN  /\ cache_file' = File(SubSeq(text, 1, copied))
           /\ pc' = IF copied = Len(text) THEN "load" ELSE "copy"
    /\ UNCHANGED <<pokemon_cache, extra_cache, ENABLE_VERBOSE_LOGGING, extra_file,
                   backups, extra_backups, tmp_files, quarantined, now, loaded, last,
                   obtained, ops, faults, tmp, tmp_path, old_file, workerVars, httpVars>>

\* recovered = json.load(f); pokemon_cache = recovered; then save_cache()
\* enters _atomic_write.  A text that does not parse ends the call in the
\* except clause: return False.
R_Load ==
    /\ pc = "load"
    /\ LET r == json_load(cache_file.data)
       IN  IF r.ok
           THEN /\ pokemon_cache' = r.val
                /\ obtained' = Forget(obtained, {"pokemon"})
                /\ pc' = "create"
                /\ tmp_path' = "None"
                /\ UNCHANGED last
           ELSE /\ pc' = "returned"
                /\ last' = [last EXCEPT !.ret = Outcome(FALSE)]
                /\ UNCHANGED <<pokemon_cache, obtained, tmp_path>>
    /\ UNCHANGED <<extra_cache, ENABLE_VERBOSE_LOGGING, cache_file, extra_file,
                   backups, extra_backups, tmp_files, quarantined, now, loaded,
                   ops, faults, tmp, old_file, workerVars, httpVars>>

\* The process is killed during the copy or before the load.
R_Crash ==
    /\ pc \in {"copy_open", "copy", "load"}
    /\ pc' = "crashed"
    /\ UNCHANGED <<tmp, tmp_path, old_file, storeVars, httpVars, workerVars>>

(***************************************************************************)
(* Specifications.  Each runs the import-time code and then a family of    *)
(* handlers, any number of times in any order within the bounds.           *)
(***************************************************************************)
\* The get-or-fetch handlers of both stores, with refresh and recover.
NextGet ==
    \/ Startup
    \/ get_pokemon_cached
    \/ get_species_cached
    \/ get_evolution_chain_cached
    \/ get_generation_cached
    \/ get_type_cached
    \/ refresh_cache
    \/ recover_cache
    \/ refresh_extra_cache
    \/ recover_extra_cache

SpecGet == Init /\ [][NextGet]_vars

\* Resolution of default varieties, one by one and in batches.
NextBulk ==
    \/ Startup
    \/ get_species_cached
    \/ get_default_variety_cached
    \/ bulk_prime_default_varieties
    \/ refresh_extra_cache

SpecBulk == Init /\ [][NextBulk]_vars

\* Backup, recover and refresh of both stores while the clock runs.
NextBackup ==
    \/ Startup
    \/ Tick
    \/ get_pokemon_cached
    \/ refresh_cache
    \/ backup_cache
    \/ recover_cache
    \/ refresh_extra_cache
    \/ backup_extra_cache
    \/ recover_extra_cache

SpecBackup == Init /\ [][NextBackup]_vars

\* The store as the step-by-step machines find it: loaded, nothing on disk
\* but what the machine itself is about.
QuietStore ==
    /\ extra_cache = EmptyExtra
    /\ ENABLE_VERBOSE_LOGGING = FALSE
    /\ extra_file = File(json_dump(EmptyExtra))
    /\ backups = <<>>
    /\ extra_backups = <<>>
    /\ tmp_files = 0
    /\ quarantined = {}
    /\ now = StartTime
    /\ loaded = TRUE
    /\ last = NoStartObs
    /\ obtained = <<>>
    /\ ops = 0
    /\ faults = 0

\* One call of _atomic_write(CACHE_FILE, pokemon_cache), step by step, for
\* any store content and any earlier content of the file, with failures
\* and crashes at every step.
InitWrite ==
    /\ pokemon_cache \in WriteStores
    /\ cache_file \in {NoFile} \cup {File(json_dump(st)) : st \in WriteStores}
    /\ QuietStore
    /\ WriteQuiet
    /\ HttpQuiet

NextWrite ==
    \/ AW_Begin
    \/ AW_CreateTemp
    \/ AW_Dump
    \/ AW_Flush
    \/ AW_Fsync
    \/ AW_SetTmpPath
    \/ AW_Replace
    \/ AW_Fail
    \/ AW_Except
    \/ AW_Crash

SpecWrite == InitWrite /\ [][NextWrite]_vars

\* One call of _json_fetch, attempt by attempt, against any remote.
InitFetch ==
    /\ pokemon_cache = EmptyObj
    /\ cache_file = File(json_dump(EmptyObj))
    /\ QuietStore
    /\ WriteQuiet
    /\ HttpQuiet

NextFetch ==
    \/ Fetch_Begin
    \/ Fetch_AttemptError
    \/ Fetch_AttemptResponse

SpecFetch == InitFetch /\ [][NextFetch]_vars

\* Recover of both stores, also from a data directory whose newest
\* snapshots are torn.
InitRecover == StartOn(DiskImages \cup TornImages)

NextRecover ==
    \/ Startup
    \/ get_pokemon_cached
    \/ refresh_cache
    \/ recover_cache
    \/ recover_extra_cache

SpecRecover == InitRecover /\ [][NextRecover]_vars

\* The lists bucket among the other handlers of the secondary store.
NextLists ==
    \/ Startup
    \/ get_all_pokemon_names_cached
    \/ get_all_types_cached
    \/ refresh_lists
    \/ get_species_cached
    \/ refresh_extra_cache
    \/ backup_extra_cache
    \/ recover_extra_cache

InitLists == StartOn(DiskImages \cup TornImages)

SpecLists == InitLists /\ [][NextLists]_vars

\* The operator commands other than recover, while the clock runs.
NextOperator ==
    \/ Startup
    \/ Tick
    \/ toggle_logging
    \/ refresh_cache
    \/ backup_cache
    \/ refresh_extra_cache
    \/ backup_extra_cache
    \/ refresh_lists_route

SpecOperator == Init /\ [][NextOperator]_vars

\* The data directory and the stores when concurrent callers start: every
\* process has loaded the live file.
StartConcurrent(procs) ==
    /\ \E st \in StartStores :
         /\ pokemon_cache = st
         /\ cache_file = File(json_dump(st))
         /\ memory = [p \in {procs[w] : w \in Workers} |-> st]
    /\ workers = [w \in Workers |-> IdleWorker(procs[w])]
    /\ temp_dir = <<>>
    /\ renames = <<>>
    /\ QuietStore
    /\ pc = "idle" /\ tmp = NoFile /\ tmp_path = "None" /\ old_file = NoFile
    /\ HttpQuiet

\* Two server processes on one data directory, one caller in each.
InitProcesses == StartConcurrent([w \in Workers |-> w])

NextProcesses ==
    \/ W_Call
    \/ W_Store
    \/ W_CreateTemp
    \/ W_Dump
    \/ W_Close
    \/ W_Replace

SpecProcesses == InitProcesses /\ [][NextProcesses]_vars

\* Two request threads of one process.
InitThreads == StartConcurrent([w \in Workers |-> 1])

NextThreads ==
    \/ W_Call
    \/ W_Store
    \/ W_CreateTemp
    \/ W_Dump
    \/ W_Close
    \/ W_Replace
    \/ W_Except

SpecThreads == InitThreads /\ [][NextThreads]_vars

\* Backup of both stores after handlers that change the memory, with or
\* without a write to disk.
NextSnapshot ==
    \/ Startup
    \/ get_pokemon_cached
    \/ get_default_variety_cached
    \/ backup_cache
    \/ backup_extra_cache

SpecSnapshot == Init /\ [][NextSnapshot]_vars

\* One call of recover_cache, step by step, on every data directory and
\* after fetches, with crashes and write failures at every step.
NextRecoverSteps ==
    \/ Startup
    \/ get_pokemon_cached
    \/ R_Begin
    \/ R_Open
    \/ R_Copy
    \/ R_Load
    \/ R_Crash
    \/ AW_CreateTemp
    \/ AW_Dump
    \/ AW_Flush
    \/ AW_Fsync
    \/ AW_SetTmpPath
    \/ AW_Replace
    \/ AW_Fail
    \/ AW_Except
    \/ AW_Crash

SpecRecoverSteps == InitRecover /\ [][NextRecoverSteps]_vars

\* Resolution of default varieties next to everything that replaces or
\* persists the secondary store.
NextDefaults ==
    \/ Startup
    \/ get_species_cached
    \/ get_default_variety_cached
    \/ bulk_prime_default_varieties
    \/ refresh_extra_cache
    \/ backup_extra_cache
    \/ recover_extra_cache

SpecDefaults == Init /\ [][NextDefaults]_vars

(***************************************************************************)
(* Properties.                                                             *)
(***************************************************************************)
\* The get-or-fetch operations and the section each one works on.
GetOps == {"get_pokemon_cached", "get_species_cached", "get_evolution_chain_cached",
           "get_generation_cached", "get_type_cached"}
SectionOf(op) ==
    CASE op = "get_pokemon_cached" -> "pokemon"
      [] op = "get_species_cached" -> "species"
      [] op = "get_evolution_chain_cached" -> "evolution"
      [] op = "get_generation_cached" -> "generation"
      [] op = "get_type_cached" -> "type"
      [] OTHER -> "none"
SectionMap(primary, secondary, op) ==
    IF op = "get_pokemon_cached" THEN primary.v ELSE Sec(secondary, SectionOf(op))
\* Everything in the data directory.
diskVars == <<cache_file, extra_file, backups, extra_backups, tmp_files, quarantined>>
\* The parsed content of a file is the value v.
Holds(file, v) == file.exists /\ json_load(file.data) = [ok |-> TRUE, val |-> v]

\* C1: for every get-or-fetch operation and key k, once a call on k has
\* obtained a usable value v from the fetch and no refresh or recover of
\* that store has happened since, a call on k returns v, makes no fetch,
\* writes nothing to disk and leaves both stores as they are.
C1_HitReturnsCachedValue ==
    [][\A op \in GetOps :
         (/\ ops' # ops
          /\ last'.op = op
          /\ <<SectionOf(op), last'.key>> \in DOMAIN obtained
          /\ Truthy(obtained[<<SectionOf(op), last'.key>>]))
         => /\ last'.ret = obtained[<<SectionOf(op), last'.key>>]
            /\ last'.fetches = 0
            /\ last'.saves = 0
            /\ UNCHANGED <<pokemon_cache, extra_cache, diskVars>>]_vars

\* A call that hit an entry which an earlier call had fetched.
C1_HitAfterFetch ==
    /\ last.op \in GetOps
    /\ last.fetches = 0
    /\ <<SectionOf(last.op), last.key>> \in DOMAIN obtained
    /\ last.ret = obtained[<<SectionOf(last.op), last.key>>]
    /\ Truthy(last.ret)

\* C2: when the fetch on a miss yields None or an empty value, the
\* operation returns absent, nothing is stored under the key (so the next
\* call fetches again) and nothing is written to disk.
C2_NegativeResultsNotCached ==
    [][\A op \in GetOps :
         (/\ ops' # ops
          /\ last'.op = op
          /\ last'.fetches = 1
          /\ last'.key \notin DOMAIN SectionMap(pokemon_cache, extra_cache, op)
          /\ last'.fetched # Raised
          /\ ~Truthy(last'.fetched))
         => /\ ~Truthy(last'.ret)
            /\ last'.key \notin DOMAIN SectionMap(pokemon_cache', extra_cache', op)
            /\ last'.saves = 0
            /\ UNCHANGED <<pokemon_cache, extra_cache, diskVars>>]_vars

\* C3: keys are lowercased before lookup and storage: a call whose key
\* differs only in case from a key that a call has cached is a hit on
\* that entry (same value, no fetch), and no section holds two keys that
\* differ only in case.
NoCaseDuplicates(m) == \A k1, k2 \in DOMAIN m : Lower(k1) = Lower(k2) => k1 = k2
C3_KeysLowercased ==
    [][\A op \in GetOps :
         (ops' # ops /\ last'.op = op)
         => /\ \A k \in DOMAIN SectionMap(pokemon_cache, extra_cache, op) :
                 (/\ Lower(k) = Lower(last'.arg)
                  /\ <<SectionOf(op), k>> \in DOMAIN obtained)
                 => /\ last'.fetches = 0
                    /\ last'.ret = SectionMap(pokemon_cache, extra_cache, op)[k]
            /\ NoCaseDuplicates(SectionMap(pokemon_cache', extra_cache', op))]_vars

\* C7: what _atomic_write wrote parses back to the value written: after a
\* successful save_cache or save_extra_cache the parsed content of the
\* store's live file equals the in-memory store.
PrimarySavers == {"get_pokemon_cached", "recover_cache"}
SecondarySavers == {"get_species_cached", "get_evolution_chain_cached",
                    "get_generation_cached", "get_type_cached",
                    "refresh_extra_cache", "recover_extra_cache"}
C7_SavedFileEqualsMemory ==
    /\ (last.op \in PrimarySavers /\ last.saved = 1) => Holds(cache_file, pokemon_cache)
    /\ (last.op \in SecondarySavers /\ last.saved = 1) => Holds(extra_file, extra_cache)

\* A fetch stored an entry in a store that already held another one, and
\* the save succeeded.
C7_SavedAfterFetch ==
    /\ last.op = "get_pokemon_cached"
    /\ last.saved = 1
    /\ Cardinality(DOMAIN pokemon_cache.v) = 2
    /\ Holds(cache_file, pokemon_cache)

\* C4: a call of _json_fetch whose every attempt ends in a status of the
\* forcelist makes exactly 3 HTTP attempts and then fails with a network
\* error.
AllTransient(as) ==
    \A i \in DOMAIN as : as[i].kind = "response" /\ as[i].code \in status_forcelist
C4_ThreeAttemptsThenFail ==
    /\ AllTransient(attempts) => Len(attempts) <= 3
    /\ (AllTransient(attempts) /\ http_pc \notin {"idle", "attempt"})
       => Len(attempts) = 3 /\ http_pc = "RetryError"

\* C5: at every step of _atomic_write, a crash included, the target file
\* is what it was before the call (absent if it was absent) or parses to
\* the whole new value; it is never partial.
C5_TargetOldOrNew ==
    pc # "idle" => cache_file = old_file \/ Holds(cache_file, pokemon_cache)

\* The process died while the temporary file held part of the text, and
\* the target still is the file of before.
C5_CrashMidDump ==
    /\ pc = "crashed"
    /\ tmp.exists
    /\ Len(tmp.data) > 0
    /\ ~json_load(tmp.data).ok
    /\ old_file.exists
    /\ ~Holds(old_file, pokemon_cache)
    /\ cache_file = old_file

\* C6: when _atomic_write fails at any step, the temporary file is gone
\* and the target is unchanged when the failure reaches the caller.
C6_FailedWriteLeavesNoTemp ==
    pc = "raised" => ~tmp.exists /\ cache_file = old_file

\* C8: bulk_prime_default_varieties(names) returns a list as long as
\* names, in the order of names: the cached value on a hit, the value it
\* stored on a miss; it persists exactly once when a value was added and
\* writes nothing when none was.
C8_BulkResolve ==
    [][(ops' # ops /\ last'.op = "bulk_prime_default_varieties")
       => LET names == last'.arg
              m == Sec(extra_cache, "species_default")
              m2 == Sec(extra_cache', "species_default")
              added == DOMAIN m2 # DOMAIN m
          IN  /\ last'.ret.k = "arr"
              /\ Len(last'.ret.v) = Len(names)
              /\ \A i \in DOMAIN names :
                   /\ Lower(names[i]) \in DOMAIN m2
                   /\ last'.ret.v[i] = m2[Lower(names[i])]
              /\ \A k \in DOMAIN m : m2[k] = m[k]
              /\ last'.saves = IF added THEN 1 ELSE 0
              /\ ~added => UNCHANGED <<extra_cache, diskVars>>]_vars

\* C9: with one or more snapshots, the one of the greatest timestamp being
\* parseable, recover returns success, the in-memory store is that
\* snapshot's content (secondary: with the missing required sections added
\* as empty), and the live file parses to that content (secondary: up to
\* required sections added as empty).
TsValue(ts) == ts[1] * 10 + ts[2]
Latest(names) == CHOOSE n \in names : \A m \in names : TsValue(m) <= TsValue(n)
Required == {REQUIRED_EXTRA_KEYS[i] : i \in DOMAIN REQUIRED_EXTRA_KEYS} \cup {LISTS_KEY}
\* v is the object snap, with at most required sections added as empty.
CompletionOf(v, snap) ==
    /\ v.k = "obj"
    /\ DOMAIN snap.v \subseteq DOMAIN v.v
    /\ \A k \in DOMAIN snap.v : v.v[k] = snap.v[k]
    /\ \A k \in DOMAIN v.v \ DOMAIN snap.v : k \in Required /\ v.v[k] = EmptyObj
C10_RecoverWithoutSnapshot ==
    [][/\ (ops' # ops /\ last'.op = "recover_cache" /\ DOMAIN backups = {})
          => last'.ret = JBool(FALSE) /\ UNCHANGED <<pokemon_cache, extra_cache, diskVars>>
       /\ (ops' # ops /\ last'.op = "recover_extra_cache" /\ DOMAIN extra_backups = {})
          => last'.ret = JBool(FALSE) /\ UNCHANGED <<pokemon_cache, extra_cache, diskVars>>]_vars

\* A recover that found no snapshot while the store held an entry.
C10_NothingToRecover ==
    /\ last.op = "recover_cache"
    /\ DOMAIN backups = {}
    /\ last.ret = JBool(FALSE)
    /\ DOMAIN pokemon_cache.v # {}
    /\ Holds(cache_file, pokemon_cache)

\* C11: when the newest snapshot of a store cannot be parsed, recover
\* returns failure and leaves the live files and both in-memory stores as
\* they were.
C11_RecoverFromTornSnapshot ==
    [][/\ (/\ ops' # ops
           /\ last'.op = "recover_cache"
           /\ DOMAIN backups # {}
           /\ ~json_load(backups[Latest(DOMAIN backups)]).ok)
          => /\ last'.ret = JBool(FALSE)
             /\ UNCHANGED <<pokemon_cache, extra_cache, cache_file, extra_file>>
       /\ (/\ ops' # ops
           /\ last'.op = "recover_extra_cache"
           /\ DOMAIN extra_backups # {}
           /\ ~json_load(extra_backups[Latest(DOMAIN extra_backups)]).ok)
          => /\ last'.ret = JBool(FALSE)
             /\ UNCHANGED <<pokemon_cache, extra_cache, cache_file, extra_file>>]_vars

\* C12: every successful backup adds one snapshot file and leaves every
\* snapshot that existed before as it was.
AddsOneSnapshot(before, after) ==
    /\ Cardinality(DOMAIN after) = Cardinality(DOMAIN before) + 1
    /\ \A n \in DOMAIN before : n \in DOMAIN after /\ after[n] = before[n]
C12_BackupAddsSnapshot ==
    [][/\ (ops' # ops /\ last'.op = "backup_cache" /\ last'.saved = 1)
          => AddsOneSnapshot(backups, backups')
       /\ (ops' # ops /\ last'.op = "backup_extra_cache" /\ last'.saved = 1)
          => AddsOneSnapshot(extra_backups, extra_backups')]_vars

\* C13: refresh_lists(keys) with keys not None removes from the lists
\* bucket exactly the keys that the list names, and leaves every other
\* list, every other section and the primary store as they are.
C13_RefreshListsScope ==
    [][(ops' # ops /\ last'.op = "refresh_lists" /\ last'.arg # PyNone)
       => LET named == {last'.arg.v[i].v : i \in DOMAIN last'.arg.v}
              before == Sec(extra_cache, LISTS_KEY)
              after == Sec(extra_cache', LISTS_KEY)
          IN  /\ DOMAIN after = DOMAIN before \ named
              /\ \A k \in DOMAIN after : after[k] = before[k]
              /\ \A sec \in DOMAIN extra_cache.v \ {LISTS_KEY} :
                   sec \in DOMAIN extra_cache'.v /\ extra_cache'.v[sec] = extra_cache.v[sec]
              /\ pokemon_cache' = pokemon_cache]_vars

\* C14: when the remote fetch fails on a miss, the get-or-fetch operation
\* returns absent, no exception leaves it, and memory and disk stay as
\* they are.
C14_FetchFailureReturnsAbsent ==
    [][\A op \in GetOps :
         (/\ ops' # ops
          /\ last'.op = op
          /\ last'.fetches = 1
          /\ last'.key \notin DOMAIN SectionMap(pokemon_cache, extra_cache, op)
          /\ last'.fetched = Raised)
         => /\ last'.ret # Raised
            /\ ~Truthy(last'.ret)
            /\ UNCHANGED <<pokemon_cache, extra_cache, diskVars>>]_vars

\* C15: in every state after startup the in-memory secondary store holds
\* every required section and the lists bucket.
C15_RequiredSectionsPresent ==
    loaded => extra_cache.k = "obj" /\ Required \subseteq DOMAIN extra_cache.v

\* A recover from a snapshot that lacked required sections.
C15_RecoveredOldSnapshot ==
    /\ last.op = "recover_extra_cache"
    /\ last.ret = JBool(TRUE)
    /\ DOMAIN extra_backups # {}
    /\ ~(Required \subseteq DOMAIN json_load(extra_backups[Latest(DOMAIN extra_backups)]).val.v)
    /\ DOMAIN Sec(extra_cache, "type") # {}
    /\ Required \subseteq DOMAIN extra_cache.v

\* C16: after startup and after every completed operation, the live file
\* of each store exists.
C16_LiveFilesExist ==
    loaded => cache_file.exists /\ extra_file.exists

\* C17: after refresh_cache the primary store is empty in memory, the disk
\* holds none of its former entries, and a restart loads an empty store;
\* after refresh_extra_cache the same holds of the secondary store, whose
\* required sections and lists bucket are all present and empty.
AllSectionsEmpty(v) ==
    /\ v.k = "obj"
    /\ DOMAIN v.v = Required
    /\ \A k \in Required : v.v[k] = EmptyObj
Unparseable(file) == file.exists /\ ~json_load(file.data).ok
KeptAside(q, name, file, t) ==
    \E b \in q : b.name = name /\ b.ts = strftime(t) /\ b.data = file.data
C19_FailedSaveKeepsEntry ==
    [][/\ \A op \in GetOps :
            (/\ ops' # ops
             /\ last'.op = op
             /\ last'.fetches = 1
             /\ last'.saves = 1
             /\ last'.saved = 0)
            => /\ last'.key \in DOMAIN SectionMap(pokemon_cache', extra_cache', op)
               /\ SectionMap(pokemon_cache', extra_cache', op)[last'.key] = last'.ret
               /\ Truthy(last'.ret)
               /\ \A k \in DOMAIN SectionMap(pokemon_cache, extra_cache, op) :
                    /\ k \in DOMAIN SectionMap(pokemon_cache', extra_cache', op)
                    /\ k # last'.key
                       => SectionMap(pokemon_cache', extra_cache', op)[k]
                            = SectionMap(pokemon_cache, extra_cache, op)[k]
       /\ (ops' # ops /\ last'.op \in PrimarySavers /\ last'.saved = 1)
          => Holds(cache_file', pokemon_cache')
       /\ (ops' # ops /\ last'.op \in SecondarySavers /\ last'.saved = 1)
          => Holds(extra_file', extra_cache')]_vars

\* Two fetches stored an entry each; the write of the first failed, the
\* write of the second put both on disk.
C19_LaterSaveWroteBoth ==
    /\ ops = 2
    /\ faults = 1
    /\ last.op = "get_evolution_chain_cached"
    /\ last.saved = 1
    /\ Cardinality(DOMAIN Sec(extra_cache, "evolution")) = 2
    /\ Holds(extra_file, extra_cache)

\* C20: a local I/O error during the disk write of save_cache or
\* save_extra_cache reaches the caller of that persist operation: what
\* the caller sees differs from what it sees after a successful save.
C20_WriteErrorReachesCaller ==
    (/\ last.op \in PrimarySavers \cup SecondarySavers
     /\ last.saves = 1
     /\ last.saved = 0)
    => last.save_seen # save_outcome(TRUE)

\* C21: every operator command other than recover is idempotent: when it
\* is executed a second time right after the first (no other command in
\* between, the same answers of the remote, no failed write), the second
\* execution leaves the verbose flag, both in-memory stores, both live
\* files and both sets of snapshots as the first left them.
OperatorCommands == {"toggle_logging", "refresh_cache", "backup_cache",
                     "refresh_extra_cache", "backup_extra_cache", "refresh_lists_route"}
C21_OperatorCommandsIdempotent ==
    [][(/\ ops' # ops
        /\ last'.op \in OperatorCommands
        /\ last.op = last'.op
        /\ last.fetched = last'.fetched
        /\ last.saved = last.saves
        /\ last'.saved = last'.saves)
       => UNCHANGED <<ENABLE_VERBOSE_LOGGING, pokemon_cache, extra_cache, cache_file,
                      extra_file, backups, extra_backups>>]_vars

\* C22: a call of _json_fetch whose first attempt ends in a non-transient
\* failure (a 4xx status other than 429, or a 200 response whose body is
\* not JSON) makes exactly one HTTP attempt and fails at once.
NonTransient(o) ==
    /\ o.kind = "response"
    /\ \/ o.code >= 400 /\ o.code < 500 /\ o.code # 429
       \/ o.code = 200 /\ ~o.json
C22_NonTransientNotRetried ==
    (Len(attempts) >= 1 /\ NonTransient(attempts[1]))
    => /\ Len(attempts) = 1
       /\ http_pc \in {"HTTPError", "JSONDecodeError"}

\* C23: with two processes on one data directory, each saving its own
\* in-memory store, the live file is at every moment the complete text of
\* one save: of the save whose os.replace came last, or, before any
\* os.replace, the file the processes started on.  It is never a mixture
\* of two writers' texts and never a part of a text.
LastRenamed == renames[Len(renames)]
C23_LastRenameWins ==
    /\ cache_file.exists
    /\ json_load(cache_file.data).ok
    /\ renames = <<>> => cache_file.data \in {json_dump(st) : st \in StartStores}
    /\ renames # <<>>
       => /\ cache_file.data = json_dump(LastRenamed.store)
          /\ \E p \in DOMAIN memory :
               \A k \in DOMAIN LastRenamed.store.v :
                 k \in DOMAIN memory[p].v /\ memory[p].v[k] = LastRenamed.store.v[k]

\* Both processes have saved, each while the other was writing its own
\* temporary file, and the live file is the store of the second to rename.
C23_BothRenamed ==
    /\ Len(renames) = 2
    /\ renames[1].by # renames[2].by
    /\ renames[1].store # renames[2].store
    /\ \A w \in Workers : workers[w].pc = "idle" /\ workers[w].proc = w
    /\ Holds(cache_file, memory[renames[2].by])
    /\ ~Holds(cache_file, memory[renames[1].by])

\* C24: when two request threads of one process run get_pokemon_cached on
\* different keys concurrently, a miss with a usable fetch each, then once
\* both calls have returned both entries are in pokemon_cache and the live
\* file parses to pokemon_cache.
C24_ConcurrentFetchesPersisted ==
    (\A w \in DOMAIN workers :
        /\ workers[w].proc = 1
        /\ workers[w].pc = "idle"
        /\ WorkerKey(w) \in workers[w].returned)
    => /\ \A w \in DOMAIN workers :
            /\ WorkerKey(w) \in DOMAIN memory[1].v
            /\ memory[1].v[WorkerKey(w)] = WorkerDoc(w)
       /\ Holds(cache_file, memory[1])

\* C25: a get_type_cached hit on an entry that lacks the "pokemon" member
\* makes exactly one fetch.  When the fetch yields a document, the entry
\* gets the member "pokemon" of that document and keeps every other
\* member as it was, nothing else in the stores changes, the store is
\* saved, and the entry is returned.  When the fetch fails, the entry is
\* returned as it was, nothing is saved and nothing changes.  A hit on an
\* entry that has the member makes no fetch.
C25_BackfillOnRead ==
    [][(ops' # ops /\ last'.op = "get_type_cached")
       => LET key == last'.key
              m == Sec(extra_cache, "type")
              m2 == Sec(extra_cache', "type")
          IN  /\ (key \in DOMAIN m /\ "pokemon" \notin DOMAIN m[key].v)
                 => /\ last'.fetches = 1
                    /\ IF IsObj(last'.fetched)
                       THEN /\ DOMAIN m2 = DOMAIN m
                            /\ \A k \in DOMAIN m \ {key} : m2[k] = m[k]
                            /\ DOMAIN m2[key].v = DOMAIN m[key].v \cup {"pokemon"}
                            /\ \A f \in DOMAIN m[key].v : m2[key].v[f] = m[key].v[f]
                            /\ m2[key].v["pokemon"] = Get(last'.fetched, "pokemon", EmptyArr)
                            /\ \A sec \in DOMAIN extra_cache.v \ {"type"} :
                                 extra_cache'.v[sec] = extra_cache.v[sec]
                            /\ pokemon_cache' = pokemon_cache
                            /\ last'.ret = m2[key]
                            /\ last'.saves = 1
                            /\ last'.saved = 1 => Holds(extra_file', extra_cache')
                       ELSE /\ last'.ret = m[key]
                            /\ last'.saves = 0
                            /\ UNCHANGED <<pokemon_cache, extra_cache, diskVars>>
              /\ (key \in DOMAIN m /\ "pokemon" \in DOMAIN m[key].v)
                 => /\ last'.fetches = 0
                    /\ last'.ret = m[key]
                    /\ UNCHANGED <<pokemon_cache, extra_cache, diskVars>>]_vars

\* A hit without fetch on an entry of an older file that an earlier hit
\* had backfilled and saved.
C25_HitAfterBackfill ==
    /\ last.op = "get_type_cached"
    /\ ops = 2
    /\ last.fetches = 0
    /\ last.ret = JObj(MapPut(OldTypeEntry.v, "pokemon", TypeBody.v["pokemon"]))
    /\ Sec(extra_cache, "type")[last.key] = last.ret
    /\ Holds(extra_file, extra_cache)

\* C26: get_default_variety_cached and bulk_prime_default_varieties give a
\* name that is not in the derived-default section the pokemon name of the
\* first default-marked entry of the species' variety list, or the
\* (case-normalized) key itself when the list has no default-marked entry
\* or the species fetch failed, so that no species document is held; the
\* value is staged in the derived-default section and returned.
DefaultMarked(vs) == {i \in DOMAIN vs : Truthy(Get(vs[i], "is_default", PyNone))}
ExpectedDefault(doc, key) ==
    LET vs == Get(doc, "varieties", EmptyArr).v
        marked == DefaultMarked(vs)
        first == CHOOSE i \in marked : \A j \in marked : i <= j
    IN  IF marked = {} THEN key ELSE vs[first].v["pokemon"].v["name"].v
C26_DefaultVarietyDerivation ==
    [][(/\ ops' # ops
        /\ last'.op \in {"get_default_variety_cached", "bulk_prime_default_varieties"})
       => LET single == last'.op = "get_default_variety_cached"
              names == IF single THEN <<last'.arg>> ELSE last'.arg
              m == Sec(extra_cache, "species_default")
              m2 == Sec(extra_cache', "species_default")
              sp2 == Sec(extra_cache', "species")
          IN  \A i \in DOMAIN names :
                LET key == Lower(names[i])
                    want == IF key \in DOMAIN sp2 THEN ExpectedDefault(sp2[key], key) ELSE key
                IN  key \notin DOMAIN m
                    => /\ key \in DOMAIN m2
                       /\ m2[key] = JStr(want)
                       /\ last'.ret # Raised
                       /\ IF single THEN last'.ret = m2[key] ELSE last'.ret.v[i] = m2[key]]_vars

\* C27: on a miss with a successful fetch, get_all_types_cached(False)
\* returns every fetched type name exactly once: first the names of the
\* preferred order, in that order, then the other names in ascending
\* order; and that list is what the lists bucket holds under "all_types".
IndexIn(q, x) == CHOOSE i \in DOMAIN q : q[i] = x
\* The ascending order of the names outside the preferred order.
Alphabet == <<"light", "sound">>
Before(x, y) ==
    IF x \in SeqSet(custom_order)
    THEN y \in SeqSet(custom_order) => IndexIn(custom_order, x) < IndexIn(custom_order, y)
    ELSE y \notin SeqSet(custom_order) /\ IndexIn(Alphabet, x) < IndexIn(Alphabet, y)
C28_NoSpecialTypes ==
    (last.op = "get_all_types_cached" /\ last.arg = JBool(TRUE))
    => \A i \in DOMAIN last.ret.v : last.ret.v[i].v \notin {"stellar", "unknown"}

\* C29: a successful backup_cache / backup_extra_cache is a copy of the
\* store's disk representation: the snapshot it writes parses to what the
\* store's live file parses to at the time of the call, and the call
\* leaves the live file and the in-memory store as they are.
SameContent(text, file) ==
    /\ file.exists
    /\ json_load(file.data).ok
    /\ json_load(text) = json_load(file.data)
C29_BackupCopiesLiveFile ==
    [][/\ (ops' # ops /\ last'.op = "backup_cache" /\ last'.saved = 1)
          => /\ last'.key \in DOMAIN backups'
             /\ SameContent(backups'[last'.key], cache_file)
             /\ UNCHANGED <<cache_file, pokemon_cache>>
       /\ (ops' # ops /\ last'.op = "backup_extra_cache" /\ last'.saved = 1)
          => /\ last'.key \in DOMAIN extra_backups'
             /\ SameContent(extra_backups'[last'.key], extra_file)
             /\ UNCHANGED <<extra_file, extra_cache>>]_vars

\* C30: at every step of recover_cache, a crash included, the live file is
\* what it was before the call, or it parses to the whole content of a
\* snapshot; it is never a part of a snapshot and never unparseable.
C30_RecoverNeverExposesPartial ==
    pc # "idle"
    => \/ cache_file = old_file
       \/ /\ cache_file.exists
          /\ json_load(cache_file.data).ok
          /\ \E ts \in DOMAIN backups :
               json_load(cache_file.data) = json_load(backups[ts])

\* C31: once a name is in the derived-default section, every step other
\* than refresh_extra_cache and recover_extra_cache keeps its value there,
\* the identity fallback staged after a failed species fetch included;
\* every later resolution of the name, alone or in a batch, returns that
\* value and fetches nothing for it; and the live file holds the value
\* after the next persist of the secondary store that succeeds.
Replacers == {"refresh_extra_cache", "recover_extra_cache"}
DefaultsOnDisk(file) == Sec(json_load(file.data).val, "species_default")
C31_ResolvedDefaultStays ==
    [][loaded
       => LET m == Sec(extra_cache, "species_default")
              m2 == Sec(extra_cache', "species_default")
              called == ops' # ops
          IN  \A key \in DOMAIN m :
                /\ (called /\ last'.op \in Replacers) \/ (key \in DOMAIN m2 /\ m2[key] = m[key])
                /\ (called /\ last'.op = "get_default_variety_cached" /\ last'.key = key)
                   => (last'.ret = m[key] /\ last'.fetches = 0)
                /\ (called /\ last'.op = "bulk_prime_default_varieties")
                   => LET names == last'.arg
                          asked == {Lower(names[i]) : i \in DOMAIN names}
                      IN  /\ last'.fetches <= Cardinality(asked \ DOMAIN m)
                          /\ \A i \in DOMAIN names :
                               Lower(names[i]) = key
                               => (last'.ret # Raised /\ last'.ret.v[i] = m[key])
                /\ (/\ called
                    /\ last'.op \in {"get_species_cached", "bulk_prime_default_varieties"}
                    /\ last'.saves = 1 /\ last'.saved = 1)
                   => (/\ Holds(extra_file', extra_cache')
                       /\ key \in DOMAIN DefaultsOnDisk(extra_file')
                       /\ DefaultsOnDisk(extra_file')[key] = m[key])]_vars

=============================================================================
